---- MODULE Spec2Model ----
(***************************************************************************)
(* The LLM gateway: the sliding-window RateLimiter, the Router with its    *)
(* failure memory, the RequestHandler dispatch loop (streaming and         *)
(* non-streaming) with its UsageTracker, the GatewayProxy transport, the   *)
(* AuthManager (refresh, token files, device flow) and the FileTokenStore. *)
(*                                                                         *)
(* Time is in milliseconds.  The specifications share the state:           *)
(*   SpecRL       the RateLimiter driven by arbitrary acquire / getStatus  *)
(*                / dispose calls, ticker firings and clock advances;      *)
(*   SpecRLLive   the RateLimiter under arrivals that never stop, with a   *)
(*                fair clock and fair tickers;                             *)
(*   Spec         requests served one after another by the RequestHandler, *)
(*                which drives the Router and the same RateLimiter;        *)
(*   SpecRouter   the Router driven on its own;                            *)
(*   SpecAuth     overlapping AuthManager calls and token-file changes;    *)
(*   SpecSync     syncTokenFromFile on every file content;                 *)
(*   SpecStore    overlapping FileTokenStore calls;                        *)
(*   SpecDevice   completeDeviceFlow (SpecDeviceFair with fairness);       *)
(*   SpecGateway  GatewayProxy construction, start and stop.               *)
(***************************************************************************)
EXTENDS Integers, Sequences, FiniteSets, TLC

\* ------------------------------------------------------------------ bounds
MaxAdvances == 2
MaxAcquires == 5
MaxRequests == 2
MaxChunks == 1
MaxCandidates == 2
MaxCalls == 2
MaxSyncs == 1
MaxStoreOps == 3
MaxFlows == 1
MaxGateways == 2
MaxStarts == 2

\* --------------------------------------------------------- configuration
\* The clock advances in steps of one ticker period or just under a window.
Deltas == {1000, 59000}

WindowMs == 60000
TickerMs == 1000
DefaultFailureTTL == 60000
DefaultMaxRetries == 3

Providers == {"openai", "gemini", "anthropic"}

\* RateLimitConfig[] handed to the RateLimiter constructor: provider ->
\* {requestsPerMinute, maxQueueSize}.  "anthropic" has no rate-limit config.
configs ==
  [p \in {"openai", "gemini"} |->
     IF p = "openai" THEN [requestsPerMinute |-> 2, maxQueueSize |-> 2]
                     ELSE [requestsPerMinute |-> 1, maxQueueSize |-> 0]]

NoTimer == -1

VARIABLES
  now,                \* Date.now()
  requestTimestamps,  \* RateLimiter.requestTimestamps: provider -> seq of ms
  queues,             \* RateLimiter.queues: provider -> seq of waiter ids
  timers,             \* RateLimiter.timers: provider -> due time or NoTimer
  intervals,          \* provider -> setInterval handles created and not cleared
  nextId,             \* number of acquire calls made so far
  lastAcquire,        \* the last acquire call and how it returned
  admitted,           \* provider -> admission times, in admission order
  released,           \* provider -> waiter ids resolved by the ticker, in order
  rejected,           \* waiter ids rejected by dispose
  disposed,           \* whether dispose() has been called
  advances,           \* number of clock advances so far
  failedProviders,    \* Router.failedProviders: provider -> ms or NotFailed
  routerCall,         \* the last call made on the Router directly
  lastFailure,        \* provider -> time of its last failure report made
                      \* on the Router directly, or NotFailed
  reqCount,           \* requests received so far
  pc,                 \* where the request in flight is suspended
  req,                \* the parsed request: model and stream flag
  selected,           \* handler local `selected`
  attempts,           \* handler local `attempts`
  lastError,          \* handler local `lastError`
  streamId,           \* handler local `streamId` of the current attempt
  idCount,            \* completion ids (random UUIDs) generated for this request
  chunkCount,         \* chunks the upstream stream of this attempt yielded
  destroyed,          \* res.destroyed
  written,            \* frames passed to res.write, in order
  result,             \* what the transport answered
  tokens,             \* FileTokenStore.tokens: provider -> TokenSet
  authCalls,          \* the AuthManager calls made: where each is suspended,
                      \* its locals and its outcome
  syncs,              \* token files synced so far
  lastSync,           \* the last syncTokenFromFile call: provider and outcome
  file,               \* content of the token file: the entries of its JSON object
  initialized,        \* FileTokenStore.initialized
  storeOps,           \* the FileTokenStore calls made: where each is suspended
  expect,             \* per provider, what the last save / delete that returned
                      \* without another one on the provider overlapping it
                      \* left: a TokenSet, NoToken after a delete
  posts,              \* refresh requests sent to each provider's token endpoint
  flow,               \* the completeDeviceFlow call: where it is suspended,
                      \* its locals, the polls sent, the saves made, its outcome
  gateways,           \* the GatewayProxy instances: config host, server, the
                      \* listen calls made and how the last start() settled
  usage,              \* UsageTracker: totalRequests and the requestCount of
                      \* the byProvider and byModel entries
  hist                \* bookkeeping about the request in flight: providers
                      \* tried, acquire and adapter calls, the normalized
                      \* error of each failed attempt, the times of the
                      \* getNextProvider calls, chunks yielded, and whether
                      \* a candidate was failed when the request started

rlVars == <<requestTimestamps, queues, timers, intervals, nextId, lastAcquire,
            admitted, released, rejected, disposed>>

reqVars == <<reqCount, pc, req, selected, attempts, lastError, streamId,
             idCount, chunkCount, destroyed, written, result,
             usage, hist>>

\* State of the components driven on their own, outside a request.
storeVars == <<file, initialized, storeOps, expect>>

\* State of the device flow and of the gateway instances.
sysVars == <<flow, gateways>>

authVars == <<tokens, authCalls, posts, syncs, lastSync, storeVars, sysVars>>

extVars == <<routerCall, lastFailure, authVars>>

vars == <<now, advances, rlVars, failedProviders, reqVars, extVars>>

\* ============================================================ RateLimiter

\* timestamps.findIndex(t => t > cutoff): first index, or 0 when none.
FindIndex(ts, cutoff) ==
  LET hits == {i \in 1..Len(ts) : ts[i] > cutoff}
  IN IF hits = {} THEN 0 ELSE CHOOSE i \in hits : \A j \in hits : i <= j

\* cleanWindow that also drops the first timestamp still inside the window.
cleanWindowOffByOne(ts, t) ==
  LET validIdx == FindIndex(ts, t - WindowMs)
  IN IF validIdx = 0 THEN <<>>
     ELSE IF validIdx > 1 THEN SubSeq(ts, validIdx + 1, Len(ts))
     ELSE ts

\* cleanWindow that drops nothing.
cleanWindowNone(ts, t) == ts

\* cleanWindow: drop the prefix before the first timestamp newer than
\* now - 60000; drop everything when there is none.
cleanWindow(ts, t) ==
  LET validIdx == FindIndex(ts, t - WindowMs)
  IN IF validIdx = 0 THEN <<>>
     ELSE SubSeq(ts, validIdx, Len(ts))

\* startTimer that arms one ticker period for every provider.
startTimerAll(tm, p, t) == [q \in DOMAIN tm |-> t + TickerMs]

\* startTimer: keep a running ticker, otherwise arm setInterval(.., 1000).
startTimer(tm, p, t) ==
  IF tm[p] # NoTimer THEN tm ELSE [tm EXCEPT ![p] = t + TickerMs]

\* stopTimer: clearInterval and forget the ticker.
stopTimer(tm, p) == [tm EXCEPT ![p] = NoTimer]

\* The live setInterval handles after startTimer(provider).
startTimerHandles(iv, tm, p) ==
  IF tm[p] # NoTimer THEN iv ELSE [iv EXCEPT ![p] = @ + 1]

\* The live setInterval handles after stopTimer(provider).
stopTimerHandles(iv, tm, p) ==
  IF tm[p] # NoTimer THEN [iv EXCEPT ![p] = @ - 1] ELSE iv

\* acquireBranch with the queue test written `<=`.
acquireBranchLe(ts, q, cfg) ==
  IF Len(ts) < cfg.requestsPerMinute THEN "admitted"
  ELSE IF Len(q) <= cfg.maxQueueSize THEN "queued"
  ELSE "rejected"

\* acquireBranch with the window test written `<=`.
acquireBranchAdmitLe(ts, q, cfg) ==
  IF Len(ts) <= cfg.requestsPerMinute THEN "admitted"
  ELSE IF Len(q) < cfg.maxQueueSize THEN "queued"
  ELSE "rejected"

\* The branch acquire takes on a configured provider, after pruning.
acquireBranch(ts, q, cfg) ==
  IF Len(ts) < cfg.requestsPerMinute THEN "admitted"
  ELSE IF Len(q) < cfg.maxQueueSize THEN "queued"
  ELSE "rejected"

\* acquire(provider): the synchronous part of the call.  The call gets the
\* id nextId + 1; lastAcquire records how it returned.
acquire(p) ==
  LET id == nextId + 1 IN
  /\ nextId' = id
  /\ UNCHANGED <<released, rejected, disposed>>
  /\ IF p \notin DOMAIN configs
     THEN /\ lastAcquire' = [id |-> id, provider |-> p, outcome |-> "unlimited"]
          /\ UNCHANGED <<requestTimestamps, queues, timers, intervals, admitted>>
     ELSE LET ts == cleanWindow(requestTimestamps[p], now)
              branch == acquireBranch(ts, queues[p], configs[p])
          IN /\ lastAcquire' = [id |-> id, provider |-> p, outcome |-> branch]
             /\ CASE branch = "admitted" ->
                       /\ requestTimestamps' =
                            [requestTimestamps EXCEPT ![p] = Append(ts, now)]
                       /\ admitted' = [admitted EXCEPT ![p] = Append(@, now)]
                       /\ UNCHANGED <<queues, timers, intervals>>
                  [] branch = "queued" ->
                       /\ requestTimestamps' = [requestTimestamps EXCEPT ![p] = ts]
                       /\ queues' = [queues EXCEPT ![p] = Append(@, id)]
                       /\ timers' = startTimer(timers, p, now)
                       /\ intervals' = startTimerHandles(intervals, timers, p)
                       /\ UNCHANGED admitted
                  [] OTHER ->
                       /\ requestTimestamps' = [requestTimestamps EXCEPT ![p] = ts]
                       /\ UNCHANGED <<queues, timers, intervals, admitted>>

\* drain that takes waiters from the tail of the queue (queue.pop()).
RECURSIVE drainFromTail(_, _, _, _, _)
drainFromTail(ts, q, out, rpm, t) ==
  IF Len(q) > 0 /\ Len(ts) < rpm
  THEN drainFromTail(Append(ts, t), SubSeq(q, 1, Len(q) - 1),
                     Append(out, q[Len(q)]), rpm, t)
  ELSE [ts |-> ts, q |-> q, out |-> out]

\* The while loop of processQueue: release waiters from the head while the
\* window has room.  Returns the window, the queue and the ids released.
RECURSIVE drain(_, _, _, _, _)
drain(ts, q, out, rpm, t) ==
  IF Len(q) > 0 /\ Len(ts) < rpm
  THEN drain(Append(ts, t), Tail(q), Append(out, Head(q)), rpm, t)
  ELSE [ts |-> ts, q |-> q, out |-> out]

\* processQueue(provider), the body of the release ticker.
processQueue(p) ==
  LET d == drain(cleanWindow(requestTimestamps[p], now), queues[p], <<>>,
                 configs[p].requestsPerMinute, now)
  IN /\ requestTimestamps' = [requestTimestamps EXCEPT ![p] = d.ts]
     /\ queues' = [queues EXCEPT ![p] = d.q]
     /\ released' = [released EXCEPT ![p] = @ \o d.out]
     /\ admitted' = [admitted EXCEPT ![p] = @ \o [i \in 1..Len(d.out) |-> now]]
     /\ timers' = IF Len(d.q) = 0 THEN stopTimer(timers, p)
                  ELSE [timers EXCEPT ![p] = now + TickerMs]
     /\ intervals' = IF Len(d.q) = 0 THEN stopTimerHandles(intervals, timers, p)
                     ELSE intervals

\* A firing of the setInterval ticker of provider p.
Ticker(p) ==
  /\ p \in DOMAIN configs
  /\ timers[p] # NoTimer
  /\ now >= timers[p]
  /\ processQueue(p)
  /\ UNCHANGED <<now, advances, nextId, lastAcquire, rejected, disposed,
                 failedProviders, reqVars, extVars>>

\* getStatus(provider): the RateLimitStatus it returns.
getStatus(p) ==
  IF p \notin DOMAIN configs
  THEN [requestsInWindow |-> 0, queueLength |-> 0, nextAvailableSlot |-> 0]
  ELSE LET ts == cleanWindow(requestTimestamps[p], now)
       IN [requestsInWindow |-> Len(ts),
           queueLength |-> Len(queues[p]),
           nextAvailableSlot |->
             IF Len(ts) >= configs[p].requestsPerMinute /\ Len(ts) > 0
             THEN ts[1] + WindowMs ELSE 0]

\* A getStatus(provider) call: it prunes the window of a configured provider.
GetStatus(p) ==
  /\ requestTimestamps' =
       IF p \in DOMAIN configs
       THEN [requestTimestamps EXCEPT ![p] = cleanWindow(@, now)]
       ELSE requestTimestamps
  /\ UNCHANGED <<now, advances, queues, timers, intervals, nextId, lastAcquire, admitted,
                 released, rejected, disposed, failedProviders, reqVars,
                 extVars>>

RECURSIVE SeqToSet(_)
SeqToSet(s) == IF s = <<>> THEN {} ELSE {Head(s)} \cup SeqToSet(Tail(s))

\* dispose that rejects the waiters and leaves them in the queues.
disposeKeepQueues ==
  /\ timers' = [p \in Providers |-> NoTimer]
  /\ intervals' = [p \in Providers |-> stopTimerHandles(intervals, timers, p)[p]]
  /\ rejected' = rejected \cup UNION {SeqToSet(queues[p]) : p \in Providers}
  /\ queues' = queues
  /\ disposed' = TRUE

\* dispose(): stop every ticker, reject every queued waiter, empty the queues.
dispose ==
  /\ timers' = [p \in Providers |-> NoTimer]
  /\ intervals' = [p \in Providers |-> stopTimerHandles(intervals, timers, p)[p]]
  /\ rejected' = rejected \cup UNION {SeqToSet(queues[p]) : p \in Providers}
  /\ queues' = [p \in Providers |-> <<>>]
  /\ disposed' = TRUE

Dispose ==
  /\ dispose
  /\ UNCHANGED <<now, advances, requestTimestamps, nextId, lastAcquire,
                 admitted, released, failedProviders, reqVars, extVars>>

\* ---- the limiter with times counted from the current instant
\* Only differences between Date.now() and the stored times matter to the
\* limiter.  Here the origin of time moves with the clock: now stays 0,
\* and when the clock advances by d every stored time decreases by d.
\* Timestamps a full window old or older are expired alike and are kept at
\* -WindowMs.  Waiter ids are reused once their waiter has left the queue,
\* and the call counters and histories are left alone, so that acquire
\* calls can keep arriving for ever.

liveUnchanged ==
  UNCHANGED <<now, advances, nextId, lastAcquire, admitted, released,
              rejected, failedProviders, reqVars, extVars>>

\* acquire(provider) on a configured provider.  A new waiter gets the least
\* id that no queued waiter carries.
AcquireLive(p) ==
  /\ p \in DOMAIN configs
  /\ LET ts == cleanWindow(requestTimestamps[p], now)
         branch == acquireBranch(ts, queues[p], configs[p])
         freshWaiter(q) ==
           CHOOSE id \in 1..(Len(q) + 1) :
             /\ id \notin SeqToSet(q)
             /\ \A other \in 1..(id - 1) : other \in SeqToSet(q)
     IN CASE branch = "admitted" ->
               /\ requestTimestamps' =
                    [requestTimestamps EXCEPT ![p] = Append(ts, now)]
               /\ UNCHANGED <<queues, timers, intervals>>
          [] branch = "queued" ->
               /\ requestTimestamps' = [requestTimestamps EXCEPT ![p] = ts]
               /\ queues' = [queues EXCEPT ![p] = Append(@, freshWaiter(@))]
               /\ timers' = startTimer(timers, p, now)
               /\ intervals' = startTimerHandles(intervals, timers, p)
          [] OTHER ->
               /\ requestTimestamps' = [requestTimestamps EXCEPT ![p] = ts]
               /\ UNCHANGED <<queues, timers, intervals>>
  /\ UNCHANGED disposed
  /\ liveUnchanged

\* A firing of the ticker of provider p: processQueue.
TickerLive(p) ==
  /\ p \in DOMAIN configs
  /\ timers[p] # NoTimer
  /\ now >= timers[p]
  /\ LET d == drain(cleanWindow(requestTimestamps[p], now), queues[p], <<>>,
                    configs[p].requestsPerMinute, now)
     IN /\ requestTimestamps' = [requestTimestamps EXCEPT ![p] = d.ts]
        /\ queues' = [queues EXCEPT ![p] = d.q]
        /\ timers' = IF Len(d.q) = 0 THEN stopTimer(timers, p)
                     ELSE [timers EXCEPT ![p] = now + TickerMs]
        /\ intervals' = IF Len(d.q) = 0
                        THEN stopTimerHandles(intervals, timers, p)
                        ELSE intervals
  /\ UNCHANGED disposed
  /\ liveUnchanged

\* dispose()
DisposeLive ==
  /\ timers' = [p \in Providers |-> NoTimer]
  /\ intervals' = [p \in Providers |-> stopTimerHandles(intervals, timers, p)[p]]
  /\ queues' = [p \in Providers |-> <<>>]
  /\ disposed' = TRUE
  /\ UNCHANGED requestTimestamps
  /\ liveUnchanged

\* The clock advances by d, not past the next firing of a running ticker.
AdvanceLive(d) ==
  /\ \A p \in Providers : timers[p] # NoTimer => d <= timers[p]
  /\ requestTimestamps' =
       [p \in Providers |->
          [i \in 1..Len(requestTimestamps[p]) |->
             IF requestTimestamps[p][i] - d < 0 - WindowMs THEN 0 - WindowMs
             ELSE requestTimestamps[p][i] - d]]
  /\ timers' = [p \in Providers |->
                  IF timers[p] = NoTimer THEN NoTimer ELSE timers[p] - d]
  /\ UNCHANGED <<queues, intervals, disposed>>
  /\ liveUnchanged

\* A direct acquire call on the limiter.
Acquire(p) ==
  /\ nextId < MaxAcquires
  /\ acquire(p)
  /\ UNCHANGED <<now, advances, failedProviders, reqVars, extVars>>

\* Date.now() moves forward.  The handler reads the clock when it selects a
\* candidate and calls acquire, at the entry and in the catch block; the
\* ticker reads it while a waiter is queued.  Time that passes between the
\* settling of acquire and the catch block (token retrieval, upstream call,
\* stream) is therefore taken while the token is awaited; an acquire that was
\* admitted settles in the same turn of the event loop.
AdvanceClock(d) ==
  /\ advances < MaxAdvances
  /\ \/ pc \in {"idle", "done", "token"}
     \/ pc = "acquire" /\ lastAcquire.outcome = "queued"
  /\ advances' = advances + 1
  /\ now' = now + d
  /\ UNCHANGED <<rlVars, failedProviders, reqVars, extVars>>

\* ================================================================= Router

NotFailed == -1
failureTTL == DefaultFailureTTL

NoCandidate == [provider |-> "none", model |-> "none", priority |-> -1]

\* config.modelAliases, in configuration order.
modelAliases ==
  [a \in {"gpt-4", "fast-model"} |->
     IF a = "gpt-4"
     THEN << [provider |-> "gemini",    model |-> "gemini-pro", priority |-> 2],
             [provider |-> "openai",    model |-> "gpt-4",      priority |-> 1],
             [provider |-> "anthropic", model |-> "claude-3",   priority |-> 3] >>
     ELSE << [provider |-> "openai",    model |-> "gpt-4o-mini",  priority |-> 1],
             [provider |-> "gemini",    model |-> "gemini-flash", priority |-> 2] >>]

\* The names with a '/' and their split at the first '/'.
directRoute ==
  [m \in {"gemini/gemini-pro"} |->
     [provider |-> "gemini", model |-> "gemini-pro", priority |-> 0]]

ModelNames == {"gpt-4", "gemini/gemini-pro", "gpt-5"}

\* Array.prototype.sort((a, b) => a.priority - b.priority): a stable sort.
RECURSIVE insertByPriority(_, _)
insertByPriority(c, sorted) ==
  IF sorted = <<>> THEN <<c>>
  ELSE IF Head(sorted).priority <= c.priority
       THEN <<Head(sorted)>> \o insertByPriority(c, Tail(sorted))
       ELSE <<c>> \o sorted

RECURSIVE sortByPriority(_)
sortByPriority(cs) ==
  IF cs = <<>> THEN <<>>
  ELSE insertByPriority(cs[Len(cs)], sortByPriority(SubSeq(cs, 1, Len(cs) - 1)))

\* resolveModelAlias throws "Unknown model" for these names.
isUnknownModel(model) ==
  model \notin DOMAIN modelAliases /\ model \notin DOMAIN directRoute

\* resolveModelAlias(model) when it does not throw.
resolveModelAlias(model) ==
  IF model \in DOMAIN modelAliases THEN sortByPriority(modelAliases[model])
  ELSE <<directRoute[model]>>

\* markFailed(provider)
markFailed(fp, p, t) == [fp EXCEPT ![p] = t]

\* clearExpiredFailures()
clearExpiredFailures(fp, t) ==
  [p \in Providers |->
     IF fp[p] # NotFailed /\ t - fp[p] > failureTTL THEN NotFailed ELSE fp[p]]

\* isProviderFailed that ends the failure one millisecond early.
isProviderFailedStrict(fp, p, t) ==
  /\ fp[p] # NotFailed
  /\ t - fp[p] < failureTTL

\* isProviderFailed(provider)
isProviderFailed(fp, p, t) ==
  /\ fp[p] # NotFailed
  /\ t - fp[p] <= failureTTL

\* selectProvider that takes the lowest priority value whatever has failed.
selectProviderIgnoreFailures(fp, candidates, t) ==
  IF candidates = <<>> THEN NoCandidate ELSE sortByPriority(candidates)[1]

\* selectProvider(candidates): the candidate it returns.
selectProvider(fp, candidates, t) ==
  IF candidates = <<>> THEN NoCandidate
  ELSE LET cleared == clearExpiredFailures(fp, t)
           available == sortByPriority(SelectSeq(candidates,
                          LAMBDA c : ~isProviderFailed(cleared, c.provider, t)))
           failed == sortByPriority(SelectSeq(candidates,
                          LAMBDA c : isProviderFailed(cleared, c.provider, t)))
       IN IF Len(available) > 0 THEN available[1]
          ELSE IF Len(failed) > 0 THEN failed[1] ELSE NoCandidate

\* selectProvider(candidates): the failure map it leaves.
selectProviderMap(fp, candidates, t) ==
  IF candidates = <<>> THEN fp ELSE clearExpiredFailures(fp, t)

\* getNextProvider that selects without recording the failure first.
getNextProviderNoMark(fp, model, failedProvider, t) ==
  selectProvider(fp, resolveModelAlias(model), t)

\* getNextProvider(model, failedProvider): the candidate it returns.
getNextProvider(fp, model, failedProvider, t) ==
  selectProvider(markFailed(fp, failedProvider, t), resolveModelAlias(model), t)

\* getNextProvider(model, failedProvider): the failure map it leaves.
getNextProviderMap(fp, model, failedProvider, t) ==
  selectProviderMap(markFailed(fp, failedProvider, t), resolveModelAlias(model), t)

\* ============================================================ AuthManager

\* Provider configurations the AuthManager is constructed with: openai
\* complete, gemini without a token endpoint, anthropic disabled.
providerConfigs ==
  [openai    |-> [enabled |-> TRUE,  tokenEndpoint |-> TRUE,  clientId |-> TRUE],
   gemini    |-> [enabled |-> TRUE,  tokenEndpoint |-> FALSE, clientId |-> TRUE],
   anthropic |-> [enabled |-> FALSE, tokenEndpoint |-> TRUE,  clientId |-> TRUE]]

\* The providers extractProviderFromPath can name.
FileProviders == {"openai", "gemini"}

\* expires_at values of the watched token files.
FileExpiresAt == {1000}

\* expires_in of a token endpoint answer, in seconds.
ExpiresIn == 60

\* What the token endpoint can answer to a refresh request: an error, or a
\* token with or without a new refresh token.
Answers ==
  {[ok |-> FALSE, refresh_token |-> "none"],
   [ok |-> TRUE,  refresh_token |-> "none"],
   [ok |-> TRUE,  refresh_token |-> "r-new"]}

\* tokens.get(provider) of a provider that has no entry.
NoToken == [accessToken |-> -1, refreshToken |-> "none", expiresAt |-> 0]

Calls == 1..MaxCalls

NoAuthCall ==
  [op |-> "none", provider |-> "none", pc |-> "free", isExpired |-> FALSE,
   checkedAt |-> 0, refreshed |-> FALSE,
   currentToken |-> NoToken, status |-> "none", error |-> "none",
   token |-> NoToken]

\* getProviderConfig(provider): the error it throws, "none" when it returns.
getProviderConfig(p) ==
  IF p \notin DOMAIN providerConfigs THEN "not configured"
  ELSE IF ~providerConfigs[p].enabled THEN "disabled"
  ELSE "none"

\* FileTokenStore.isTokenExpired(provider)
isTokenExpired(store, p, t) ==
  IF store[p] = NoToken THEN TRUE ELSE t >= store[p].expiresAt

\* The TokenSet refreshToken builds from a successful answer.
refreshedTokenSet(c, currentToken, answer, t) ==
  [accessToken  |-> c,
   refreshToken |-> IF answer.refresh_token # "none" THEN answer.refresh_token
                    ELSE currentToken.refreshToken,
   expiresAt    |-> t + ExpiresIn * 1000]

\* The call ends: its promise is rejected with the error.
reject(call, err) ==
  [call EXCEPT !.pc = "done", !.status = "error", !.error = err]

\* The call ends: its promise is resolved with the TokenSet.
resolve(call, tok) ==
  [call EXCEPT !.pc = "done", !.status = "ok", !.token = tok]

\* refreshToken(provider) up to its first await: getProviderConfig.
enterRefresh(call, p) ==
  IF getProviderConfig(p) # "none" THEN reject(call, getProviderConfig(p))
  ELSE [call EXCEPT !.pc = "refresh.getToken"]

\* ---- token files

\* Default lifetime syncTokenFromFile gives a token without expiry.
DefaultExpiryMs == 3600000

\* A field of the parsed file that is missing.
NoField == [present |-> FALSE, value |-> 0]

\* expires_at / expiresAt fields a file can carry.
ExpiryFields == {NoField} \cup {[present |-> TRUE, value |-> v] : v \in {0, 1000, 60000}}

\* access_token / accessToken fields a file can carry.
AccessFields == {NoField} \cup {[present |-> TRUE, value |-> v] : v \in {10, 11}}

\* A file content: what readFile and JSON.parse make of it, and for a JSON
\* object the fields syncTokenFromFile reads.
fileContent(kind, a, b, r, e, f) ==
  [kind |-> kind, access_token |-> a, accessToken |-> b, refresh_token |-> r,
   expires_at |-> e, expiresAt |-> f]

NonObjectContents ==
  {fileContent(k, NoField, NoField, "none", NoField, NoField) :
     k \in {"unreadable", "malformed", "empty", "null"}}

ObjectContents ==
  {fileContent("object", a, b, r, e, f) :
     a \in AccessFields, b \in AccessFields, r \in {"none", "r-file"},
     e \in ExpiryFields, f \in ExpiryFields}

FileContents == NonObjectContents \cup ObjectContents

\* The files the watcher sees change while calls are in flight.
WatchedContents ==
  {fileContent("object", [present |-> TRUE, value |-> 10], NoField, r,
               [present |-> TRUE, value |-> e], NoField) :
     r \in {"none", "r-file"}, e \in FileExpiresAt}

\* JavaScript truthiness of a numeric field: missing and 0 are falsy.
truthy(field) == field.present /\ field.value # 0

\* a || b || c on numeric fields with a last operand that is always there.
firstTruthy(a, b, c) ==
  IF truthy(a) THEN a.value ELSE IF truthy(b) THEN b.value ELSE c

\* expiresAt of the tokenSet syncTokenFromFile builds.
syncExpiresAt(content, t) ==
  firstTruthy(content.expires_at, content.expiresAt, t + DefaultExpiryMs)

\* syncTokenFromFile: the error thrown inside its try block, "none" when the
\* token is saved.
syncError(content, t) ==
  IF content.kind = "unreadable" THEN "readFile"
  ELSE IF content.kind \in {"malformed", "empty"} THEN "JSON.parse"
  ELSE IF content.kind = "null" THEN "TypeError"
  ELSE IF ~truthy(content.access_token) /\ ~truthy(content.accessToken)
       THEN "missing access_token"
  ELSE IF t >= syncExpiresAt(content, t) THEN "expired"
  ELSE "none"

\* syncTokenFromFile: whether the call raises to its caller; the catch block
\* logs every error and returns.
syncRaises(content, t) == FALSE

\* syncTokenFromFile that saves the token before it looks at the expiry.
syncTokensBeforeExpiryCheck(store, p, content, t) ==
  IF syncError(content, t) \notin {"none", "expired"} THEN store
  ELSE [store EXCEPT ![p] = [accessToken |-> firstTruthy(content.access_token,
                                                        content.accessToken, 0),
                             refreshToken |-> content.refresh_token,
                             expiresAt |-> syncExpiresAt(content, t)]]

\* The store syncTokenFromFile leaves.
syncTokens(store, p, content, t) ==
  IF syncError(content, t) # "none" THEN store
  ELSE [store EXCEPT ![p] = [accessToken |-> firstTruthy(content.access_token,
                                                        content.accessToken, 0),
                             refreshToken |-> content.refresh_token,
                             expiresAt |-> syncExpiresAt(content, t)]]

NoSync == [provider |-> "none", error |-> "none", raised |-> FALSE, saved |-> FALSE]

\* syncTokenFromFile(filePath, provider) as a step.
syncTokenFromFile(p, content) ==
  /\ tokens' = syncTokens(tokens, p, content, now)
  /\ lastSync' = [provider |-> p, error |-> syncError(content, now),
                  raised |-> syncRaises(content, now),
                  saved |-> syncError(content, now) = "none"]

authUnchanged ==
  UNCHANGED <<now, advances, rlVars, failedProviders, reqVars, routerCall,
              lastFailure, storeVars, sysVars>>

\* The file watcher's add / change handler: syncTokenFromFile on the
\* provider the path names.
FileChanged(p, content) ==
  /\ syncs < MaxSyncs
  /\ syncs' = syncs + 1
  /\ syncTokenFromFile(p, content)
  /\ UNCHANGED <<authCalls, posts>>
  /\ authUnchanged

\* syncTokenFromFile(filePath, provider) called on its own.
SyncTokenFromFile(p, content) ==
  /\ syncTokenFromFile(p, content)
  /\ UNCHANGED <<authCalls, posts, syncs>>
  /\ authUnchanged

\* The calls are numbered in the order they are made.
nextCall(c) ==
  /\ authCalls[c].pc = "free"
  /\ c > 1 => authCalls[c - 1].pc # "free"

\* getValidToken(provider) is called; it awaits isTokenExpired.
GetValidToken(c, p) ==
  /\ nextCall(c)
  /\ authCalls' = [authCalls EXCEPT ![c] =
                     [NoAuthCall EXCEPT !.op = "getValidToken", !.provider = p,
                                        !.pc = "isTokenExpired"]]
  /\ UNCHANGED <<tokens, posts, syncs, lastSync>>
  /\ authUnchanged

\* isTokenExpired answers; getValidToken awaits getToken.
IsTokenExpired(c) ==
  LET call == authCalls[c]
      p == call.provider
  IN /\ call.pc = "isTokenExpired"
     /\ authCalls' = [authCalls EXCEPT ![c] =
                        [call EXCEPT !.isExpired = isTokenExpired(tokens, p, now),
                                     !.checkedAt = now,
                                     !.currentToken = tokens[p],
                                     !.pc = "getToken"]]
     /\ UNCHANGED <<tokens, posts, syncs, lastSync>>
     /\ authUnchanged

\* getToken answers; getValidToken returns the token, throws, or calls
\* refreshToken.
GetToken(c) ==
  LET call == authCalls[c]
      token == tokens[call.provider]
  IN /\ call.pc = "getToken"
     /\ authCalls' = [authCalls EXCEPT ![c] =
          IF call.isExpired
          THEN IF token # NoToken /\ token.refreshToken # "none"
               THEN enterRefresh([call EXCEPT !.refreshed = TRUE,
                                              !.currentToken = token],
                                 call.provider)
               ELSE reject(call, "re-authenticate")
          ELSE IF token = NoToken THEN reject(call, "authenticate")
               ELSE resolve(call, token)]
     /\ UNCHANGED <<tokens, posts, syncs, lastSync>>
     /\ authUnchanged

\* refreshToken(provider) is called directly.
RefreshToken(c, p) ==
  /\ nextCall(c)
  /\ authCalls' = [authCalls EXCEPT ![c] =
                     enterRefresh([NoAuthCall EXCEPT !.op = "refreshToken",
                                                     !.provider = p,
                                                     !.checkedAt = now,
                                                     !.currentToken = tokens[p],
                                                     !.refreshed = TRUE], p)]
  /\ UNCHANGED <<tokens, posts, syncs, lastSync>>
  /\ authUnchanged

\* refreshToken after its getToken: the checks before the request, then
\* axios.post to the token endpoint.
RefreshGetToken(c) ==
  LET call == authCalls[c]
      p == call.provider
      currentToken == tokens[p]
      failure == IF currentToken = NoToken THEN "no token"
                 ELSE IF currentToken.refreshToken = "none" THEN "no refresh token"
                 ELSE IF ~providerConfigs[p].tokenEndpoint \/ ~providerConfigs[p].clientId
                      THEN "missing endpoint"
                 ELSE "none"
  IN /\ call.pc = "refresh.getToken"
     /\ IF failure # "none"
        THEN /\ authCalls' = [authCalls EXCEPT ![c] = reject(call, failure)]
             /\ posts' = posts
        ELSE /\ authCalls' = [authCalls EXCEPT ![c] =
                                [call EXCEPT !.pc = "posted",
                                             !.currentToken = currentToken]]
             /\ posts' = [posts EXCEPT ![p] = @ + 1]
     /\ UNCHANGED <<tokens, syncs, lastSync>>
     /\ authUnchanged

\* The token endpoint answers: the new TokenSet is put in the store, or, on
\* an error, the provider's entry is deleted; the store then persists.
RefreshAnswer(c, answer) ==
  LET call == authCalls[c]
      p == call.provider
      tokenSet == refreshedTokenSet(c, call.currentToken, answer, now)
  IN /\ call.pc = "posted"
     /\ IF answer.ok
        THEN /\ tokens' = [tokens EXCEPT ![p] = tokenSet]
             /\ authCalls' = [authCalls EXCEPT ![c] =
                                [call EXCEPT !.pc = "saveToken", !.token = tokenSet]]
        ELSE /\ tokens' = [tokens EXCEPT ![p] = NoToken]
             /\ authCalls' = [authCalls EXCEPT ![c] =
                                [call EXCEPT !.pc = "deleteToken"]]
     /\ UNCHANGED <<posts, syncs, lastSync>>
     /\ authUnchanged

\* The store has persisted: refreshToken returns the TokenSet or throws.
RefreshReturn(c) ==
  LET call == authCalls[c]
  IN /\ call.pc \in {"saveToken", "deleteToken"}
     /\ authCalls' = [authCalls EXCEPT ![c] =
                        IF call.pc = "saveToken" THEN resolve(call, call.token)
                        ELSE reject(call, "refresh failed")]
     /\ UNCHANGED <<tokens, posts, syncs, lastSync>>
     /\ authUnchanged

\* ---- device flow

\* const pollInterval = 5000
pollInterval == 5000

\* const maxAttempts = 120
maxAttempts == 120

\* What the token endpoint can answer to a device-code poll: a token, one of
\* the OAuth device-flow error codes, or any other failure ("other": an
\* unrecognized code, or no response at all).
DeviceAnswers ==
  {"success", "authorization_pending", "slow_down", "expired_token",
   "access_denied", "other"}

NoFlow ==
  [pc |-> "idle", calls |-> 0, provider |-> "none", attempts |-> 0,
   polls |-> 0, answer |-> "none", wait |-> 0, saves |-> 0,
   status |-> "none", error |-> "none", token |-> NoToken,
   before |-> [p \in Providers |-> NoToken]]

\* The TokenSet completeDeviceFlow builds from a successful answer.
deviceTokenSet(c, t) ==
  [accessToken |-> c, refreshToken |-> "r-device",
   expiresAt |-> t + ExpiresIn * 1000]

\* The catch block that polls again whatever the error code is.
pollsAgainAlways(errorCode) == TRUE

\* The catch block: the error codes after which the loop continues.
pollsAgain(errorCode) ==
  errorCode = "authorization_pending" \/ errorCode = "slow_down"

\* The catch block: the time waited before the loop continues.
pollDelay(errorCode) ==
  IF errorCode = "authorization_pending" THEN pollInterval
  ELSE pollInterval * 2

\* The catch block: the error thrown when the loop does not continue.
deviceError(errorCode) ==
  IF errorCode = "expired_token" THEN "device code expired"
  ELSE IF errorCode = "access_denied" THEN "user denied authorization"
  ELSE "failed to complete device flow"

\* while (attempts < maxAttempts) { attempts++; axios.post(...) }, and the
\* throw after the loop.
devicePoll(f) ==
  IF f.attempts < maxAttempts
  THEN [f EXCEPT !.attempts = @ + 1, !.polls = @ + 1, !.pc = "post"]
  ELSE reject(f, "timed out")

\* completeDeviceFlow(provider, deviceCode) up to its first await.
CompleteDeviceFlow(p) ==
  /\ flow.pc \in {"idle", "done"}
  /\ flow.calls < MaxFlows
  /\ LET f == [NoFlow EXCEPT !.calls = flow.calls + 1, !.provider = p,
                             !.before = tokens]
     IN flow' =
          IF getProviderConfig(p) # "none" THEN reject(f, getProviderConfig(p))
          ELSE IF ~providerConfigs[p].tokenEndpoint \/ ~providerConfigs[p].clientId
          THEN reject(f, "missing token endpoint or client ID")
          ELSE devicePoll(f)
  /\ UNCHANGED <<now, advances, rlVars, failedProviders, reqVars, routerCall,
                 lastFailure, tokens, authCalls, posts, syncs, lastSync,
                 storeVars, gateways>>

\* The awaited axios.post of a poll settles.
DeviceAnswer(answer) ==
  /\ flow.pc = "post"
  /\ LET f == [flow EXCEPT !.answer = answer]
     IN flow' =
          IF answer = "success"
          THEN [f EXCEPT !.pc = "save",
                         !.token = deviceTokenSet(f.calls, now)]
          ELSE IF pollsAgain(answer)
          THEN [f EXCEPT !.pc = "wait", !.wait = pollDelay(answer)]
          ELSE reject(f, deviceError(answer))
  /\ UNCHANGED <<now, advances, rlVars, failedProviders, reqVars, routerCall,
                 lastFailure, tokens, authCalls, posts, syncs, lastSync,
                 storeVars, gateways>>

\* The timer of the catch block fires, `continue`, and the loop test.
DeviceWait ==
  /\ flow.pc = "wait"
  /\ now' = now + flow.wait
  /\ flow' = devicePoll([flow EXCEPT !.wait = 0])
  /\ UNCHANGED <<advances, rlVars, failedProviders, reqVars, routerCall,
                 lastFailure, tokens, authCalls, posts, syncs, lastSync,
                 storeVars, gateways>>

\* The awaited tokenStore.saveToken returns, and completeDeviceFlow returns
\* the TokenSet.
DeviceSave ==
  /\ flow.pc = "save"
  /\ tokens' = [tokens EXCEPT ![flow.provider] = flow.token]
  /\ flow' = [flow EXCEPT !.pc = "done", !.status = "ok", !.saves = @ + 1]
  /\ UNCHANGED <<now, advances, rlVars, failedProviders, reqVars, routerCall,
                 lastFailure, authCalls, posts, syncs, lastSync,
                 storeVars, gateways>>

\* ============================================================ GatewayProxy

\* Hosts a gateway config can name.
Hosts == {"localhost", "127.0.0.1", "::1", "0.0.0.0", "192.168.1.10",
          "example.com"}

Gateways == 1..MaxGateways

NoGateway ==
  [host |-> "none", server |-> "none", starts |-> 0, listens |-> 0,
   started |-> "none"]

\* validateHost that lets every host pass.
validateHostAny(host) == TRUE

\* validateHost(host): whether it returns without throwing.
validateHost(host) == host \in {"localhost", "127.0.0.1", "::1"}

\* The instances are numbered in the order they are constructed.
nextGateway(g) ==
  /\ gateways[g].host = "none"
  /\ \A h \in Gateways : h < g => gateways[h].host # "none"

\* new GatewayProxy(requestHandler, config)
NewGateway(g, host) ==
  /\ nextGateway(g)
  /\ gateways' = [gateways EXCEPT ![g] = [NoGateway EXCEPT !.host = host]]
  /\ UNCHANGED <<now, advances, rlVars, failedProviders, reqVars, routerCall,
                 lastFailure, tokens, authCalls, posts, syncs, lastSync,
                 storeVars, flow>>

\* start(): validateHost, then app.listen(port, host, callback).
Start(g) ==
  /\ gateways[g].host # "none"
  /\ gateways[g].started # "pending"
  /\ gateways[g].starts < MaxStarts
  /\ gateways' =
       [gateways EXCEPT ![g] =
          IF validateHost(@.host)
          THEN [@ EXCEPT !.starts = @ + 1, !.listens = @ + 1,
                         !.server = "binding", !.started = "pending"]
          ELSE [@ EXCEPT !.starts = @ + 1, !.started = "security"]]
  /\ UNCHANGED <<now, advances, rlVars, failedProviders, reqVars, routerCall,
                 lastFailure, tokens, authCalls, posts, syncs, lastSync,
                 storeVars, flow>>

\* The listen callback runs: the socket is bound and start() resolves.
Listening(g) ==
  /\ gateways[g].started = "pending"
  /\ gateways' = [gateways EXCEPT ![g].server = "listening",
                                  ![g].started = "resolved"]
  /\ UNCHANGED <<now, advances, rlVars, failedProviders, reqVars, routerCall,
                 lastFailure, tokens, authCalls, posts, syncs, lastSync,
                 storeVars, flow>>

\* The server emits 'error' (the address is in use): start() rejects.
ListenError(g) ==
  /\ gateways[g].started = "pending"
  /\ gateways' = [gateways EXCEPT ![g].server = "error",
                                  ![g].started = "rejected"]
  /\ UNCHANGED <<now, advances, rlVars, failedProviders, reqVars, routerCall,
                 lastFailure, tokens, authCalls, posts, syncs, lastSync,
                 storeVars, flow>>

\* stop(): nothing without a server, else server.close.
Stop(g) ==
  /\ gateways[g].host # "none"
  /\ gateways[g].started # "pending"
  /\ gateways' = [gateways EXCEPT ![g].server =
                    IF @ = "listening" THEN "closed" ELSE @]
  /\ UNCHANGED <<now, advances, rlVars, failedProviders, reqVars, routerCall,
                 lastFailure, tokens, authCalls, posts, syncs, lastSync,
                 storeVars, flow>>

\* ========================================================= FileTokenStore

\* TokenSets handed to saveToken.
StoreTokens ==
  {[accessToken |-> 20, refreshToken |-> "none", expiresAt |-> 1000],
   [accessToken |-> 21, refreshToken |-> "r-file", expiresAt |-> 60000]}

\* No claim about the provider: nothing saved or deleted yet, or calls on it
\* overlapped.
Unknown == [accessToken |-> -2, refreshToken |-> "none", expiresAt |-> 0]

StoreOps == 1..MaxStoreOps

NoStoreOp ==
  [kind |-> "none", provider |-> "none", token |-> NoToken, pc |-> "free",
   overlapped |-> FALSE, data |-> {}]

\* JSON.stringify of one TokenSet: an undefined refreshToken is left out.
stringifyToken(t) ==
  [accessToken |-> t.accessToken, expiresAt |-> t.expiresAt,
   refreshToken |-> IF t.refreshToken = "none" THEN <<>> ELSE <<t.refreshToken>>]

\* The TokenSet JSON.parse gives back for one entry.
parseToken(e) ==
  [accessToken |-> e.accessToken,
   refreshToken |-> IF e.refreshToken = <<>> THEN "none" ELSE e.refreshToken[1],
   expiresAt |-> e.expiresAt]

\* persist(): JSON.stringify(Object.fromEntries(this.tokens))
stringify(map) ==
  {<<p, stringifyToken(map[p])>> : p \in {q \in Providers : map[q] # NoToken}}

\* initialize(): every entry of the parsed file is set in the map.
load(map, data) ==
  [p \in Providers |->
     IF \E e \in data : e[1] = p
     THEN parseToken((CHOOSE e \in data : e[1] = p)[2])
     ELSE map[p]]

\* getToken(provider) on the store as it is: it initializes first.
getToken(p) ==
  IF initialized THEN tokens[p] ELSE load(tokens, file)[p]

\* getToken(provider) on a new FileTokenStore on the same file.
getTokenFresh(p) == load([q \in Providers |-> NoToken], file)[p]

storeUnchanged ==
  UNCHANGED <<now, advances, rlVars, failedProviders, reqVars, routerCall,
              lastFailure, authCalls, posts, syncs, lastSync, sysVars>>

\* The calls are numbered in the order they are made.
nextStoreOp(o) ==
  /\ storeOps[o].pc = "free"
  /\ o > 1 => storeOps[o - 1].pc # "free"

inFlight(o) == storeOps[o].pc \notin {"free", "done"}

\* Calls in flight that save or delete for the provider.
writersOf(p) ==
  {o \in StoreOps : /\ inFlight(o)
                    /\ storeOps[o].kind \in {"save", "delete"}
                    /\ storeOps[o].provider = p}

\* The call after its await initialize(): getToken returns; saveToken and
\* deleteToken change the map and enter persist(), which stringifies the map
\* before it awaits mkdir and writeFile.
afterInitialize(ops, o, map) ==
  LET op == ops[o]
      newMap == IF op.kind = "save" THEN [map EXCEPT ![op.provider] = op.token]
                ELSE IF op.kind = "delete" THEN [map EXCEPT ![op.provider] = NoToken]
                ELSE map
  IN /\ tokens' = newMap
     /\ storeOps' = [ops EXCEPT ![o] =
                       IF op.kind = "get" THEN [op EXCEPT !.pc = "done"]
                       ELSE [op EXCEPT !.pc = "persist", !.data = stringify(newMap)]]

\* saveToken / deleteToken / getToken is called: initialize() returns at once
\* when the store is initialized, else it awaits readFile.
StoreCall(o, kind, p, t) ==
  LET writer == kind \in {"save", "delete"}
      overlap == writer /\ writersOf(p) # {}
      marked == [q \in StoreOps |->
                   IF q \in writersOf(p) /\ writer
                   THEN [storeOps[q] EXCEPT !.overlapped = TRUE] ELSE storeOps[q]]
      called == [marked EXCEPT ![o] =
                   [NoStoreOp EXCEPT !.kind = kind, !.provider = p, !.token = t,
                                     !.overlapped = overlap, !.pc = "readFile"]]
  IN /\ nextStoreOp(o)
     /\ expect' = IF writer THEN [expect EXCEPT ![p] = Unknown] ELSE expect
     /\ IF initialized THEN afterInitialize(called, o, tokens)
        ELSE storeOps' = called /\ tokens' = tokens
     /\ UNCHANGED <<file, initialized>>
     /\ storeUnchanged

\* initialize(): readFile has read the file.
ReadFile(o) ==
  /\ storeOps[o].pc = "readFile"
  /\ storeOps' = [storeOps EXCEPT ![o] = [@ EXCEPT !.pc = "loaded", !.data = file]]
  /\ UNCHANGED <<tokens, file, initialized, expect>>
  /\ storeUnchanged

\* initialize() resumes: the entries read are set in the map, the store is
\* initialized, and the call goes on.
Loaded(o) ==
  /\ storeOps[o].pc = "loaded"
  /\ initialized' = TRUE
  /\ afterInitialize(storeOps, o, load(tokens, storeOps[o].data))
  /\ UNCHANGED <<file, expect>>
  /\ storeUnchanged

\* persist(): writeFile has written the string; the call returns.
WriteFile(o) ==
  LET op == storeOps[o]
  IN /\ op.pc = "persist"
     /\ file' = op.data
     /\ storeOps' = [storeOps EXCEPT ![o] = [op EXCEPT !.pc = "done"]]
     /\ expect' = IF op.overlapped THEN expect
                  ELSE [expect EXCEPT ![op.provider] =
                          IF op.kind = "save" THEN op.token ELSE NoToken]
     /\ UNCHANGED <<tokens, initialized>>
     /\ storeUnchanged

\* new FileTokenStore(filePath) on the same file, once the calls on the old
\* instance have returned.
NewStore ==
  /\ \A o \in StoreOps : ~inFlight(o)
  /\ initialized
  /\ tokens' = [p \in Providers |-> NoToken]
  /\ initialized' = FALSE
  /\ UNCHANGED <<file, storeOps, expect>>
  /\ storeUnchanged

\* ---- the Router called directly

\* Candidate lists handed to selectProvider: up to MaxCandidates candidates
\* of pairwise-distinct providers, in any order, priorities 1 or 2.
CandidatePool ==
  {[provider |-> p, model |-> "m", priority |-> k] : p \in Providers, k \in {1, 2}}

CandidateLists ==
  UNION {{cs \in [1..n -> CandidatePool] :
            \A i, j \in 1..n : i # j => cs[i].provider # cs[j].provider}
         : n \in 0..MaxCandidates}

NoCall == [op |-> "none", provider |-> "none", candidates |-> <<>>,
           result |-> NoCandidate]

\* router.markFailed(p)
MarkFailed(p) ==
  /\ failedProviders' = markFailed(failedProviders, p, now)
  /\ lastFailure' = [lastFailure EXCEPT ![p] = now]
  /\ routerCall' = [op |-> "markFailed", provider |-> p, candidates |-> <<>>,
                    result |-> NoCandidate]
  /\ UNCHANGED <<now, advances, rlVars, reqVars, authVars>>

\* router.selectProvider(cs)
SelectProvider(cs) ==
  /\ failedProviders' = selectProviderMap(failedProviders, cs, now)
  /\ routerCall' = [op |-> "select", provider |-> "none", candidates |-> cs,
                    result |-> selectProvider(failedProviders, cs, now)]
  /\ UNCHANGED <<now, advances, rlVars, reqVars, lastFailure, authVars>>

\* router.getNextProvider(model, p) for a model that resolves
GetNextProvider(model, p) ==
  /\ ~isUnknownModel(model)
  /\ failedProviders' = getNextProviderMap(failedProviders, model, p, now)
  /\ lastFailure' = [lastFailure EXCEPT ![p] = now]
  /\ routerCall' = [op |-> "next", provider |-> p,
                    candidates |-> resolveModelAlias(model),
                    result |-> getNextProvider(failedProviders, model, p, now)]
  /\ UNCHANGED <<now, advances, rlVars, reqVars, authVars>>

\* ================================================================= errors

NoError == [isProviderError |-> FALSE, provider |-> "none", type |-> "none",
            retryable |-> FALSE, message |-> "none"]

\* new Error(message): an object without `type` and `provider` fields.
PlainError(msg) == [isProviderError |-> FALSE, provider |-> "none",
                    type |-> "none", retryable |-> FALSE, message |-> msg]

\* A ProviderError object.
ProviderError(p, type, retryable, msg) ==
  [isProviderError |-> TRUE, provider |-> p, type |-> type,
   retryable |-> retryable, message |-> msg]

\* Upstream HTTP statuses an adapter call can fail with; NoResponse is a
\* failure without a response (network error, timeout).
NoResponse == 0
Statuses == {NoResponse, 400, 401, 429, 503, 504}

\* BaseProvider.normalizeError
normalizeError(p, statusCode) ==
  IF statusCode = 401 \/ statusCode = 403
    THEN ProviderError(p, "auth", FALSE, "upstream")
  ELSE IF statusCode = 429
    THEN ProviderError(p, "rate_limit", TRUE, "upstream")
  ELSE IF statusCode = 500 \/ statusCode = 502 \/ statusCode = 503
    THEN ProviderError(p, "service_unavailable", TRUE, "upstream")
  ELSE IF statusCode = 400
    THEN ProviderError(p, "invalid_request", FALSE, "upstream")
  ELSE ProviderError(p, "unknown", FALSE, "upstream")

\* RequestHandler.normalizeToProviderError
normalizeToProviderError(error, p) ==
  IF error.isProviderError THEN error
  ELSE ProviderError(p, "unknown", FALSE, error.message)

\* RequestHandler.createProviderError
createProviderError(msg, model) ==
  ProviderError(model, "service_unavailable", FALSE, msg)

\* GatewayProxy.getHttpStatus
getHttpStatus(error) ==
  IF error.isProviderError /\ error.type = "auth" THEN 401
  ELSE IF error.isProviderError /\ error.type = "rate_limit" THEN 429
  ELSE IF error.isProviderError /\ error.type = "invalid_request" THEN 400
  ELSE IF error.isProviderError /\ error.type = "service_unavailable" THEN 503
  ELSE IF ~error.isProviderError /\ error.message = "Unknown model" THEN 400
  ELSE 500

\* GatewayProxy.formatError: the wire error type.
formatError(error) ==
  IF error.isProviderError
  THEN IF error.type = "auth" THEN "authentication_error"
       ELSE IF error.type = "rate_limit" THEN "rate_limit_error"
       ELSE IF error.type = "invalid_request" THEN "invalid_request_error"
       ELSE "server_error"
  ELSE "server_error"

\* ========================================================= RequestHandler

maxRetries == DefaultMaxRetries

\* The providers map handed to the RequestHandler (index.ts builds adapters
\* for "openai" and "gemini" only).
Adapters == {"openai", "gemini"}

NoResult == [kind |-> "none", provider |-> "none", error |-> NoError, status |-> 0]

DoneFrame == [type |-> "done", id |-> 0, etype |-> "none"]
ChunkFrame(id) == [type |-> "chunk", id |-> id, etype |-> "none"]
ErrorFrame(error) == [type |-> "error", id |-> 0, etype |-> formatError(error)]

\* new UsageTracker(): no request counted, both maps empty.
NoUsage == [totalRequests |-> 0, byProvider |-> <<>>, byModel |-> <<>>]

\* The entry of a key gets requestCount += 1; a key the map does not have
\* gets an entry with requestCount 0 first.
countRequest(map, key) ==
  [k \in DOMAIN map \cup {key} |->
     IF k = key THEN (IF key \in DOMAIN map THEN map[key] ELSE 0) + 1
     ELSE map[k]]

\* recordUsage that leaves the provider's entry alone.
recordUsageNoProvider(u, provider, model) ==
  [totalRequests |-> u.totalRequests + 1,
   byProvider    |-> u.byProvider,
   byModel       |-> countRequest(u.byModel, model)]

\* recordUsage(provider, model, usage): the request counts.  The token sums
\* are accumulated beside them in the same three places and are not kept
\* here.
recordUsage(u, provider, model) ==
  [totalRequests |-> u.totalRequests + 1,
   byProvider    |-> countRequest(u.byProvider, provider),
   byModel       |-> countRequest(u.byModel, model)]

NewHist(failedAtStart) ==
  [tried |-> <<>>, acquireCalls |-> 0,
   adapterCalls |-> [p \in Providers |-> 0],
   errLog |-> <<>>, nextAt |-> <<>>, yielded |-> 0,
   failedAtStart |-> failedAtStart]

\* An attempt that is not counted.
countAttemptNone(att) == att

\* attempts++
countAttempt(att) == att + 1

\* while (attempts < this.maxRetries && selected)
loopGuard(att, sel) == att < maxRetries /\ sel # NoCandidate

\* The catch test without the retryable flag.
catchRetriesAlways(providerError, att) == att < maxRetries

\* if (providerError.retryable && attempts < this.maxRetries)
catchRetries(providerError, att) == providerError.retryable /\ att < maxRetries

\* lastError assigned only while it is still null.
assignLastErrorFirst(prev, providerError) ==
  IF prev = NoError THEN providerError ELSE prev

\* lastError = providerError
assignLastError(prev, providerError) == providerError

\* surface that writes the error frame and no [DONE].
surfaceNoDone(error, stream, dead, wr) ==
  /\ pc' = "done"
  /\ result' = [kind |-> "error", provider |-> "none", error |-> error,
                status |-> IF stream THEN 200 ELSE getHttpStatus(error)]
  /\ written' = IF stream /\ ~dead
                THEN wr \o <<ErrorFrame(error)>>
                ELSE wr

\* The transport receives an error thrown by the handler: the error handler
\* answers a non-streaming request with a status; a streaming response gets
\* an error frame and [DONE] unless the connection is destroyed.
surface(error, stream, dead, wr) ==
  /\ pc' = "done"
  /\ result' = [kind |-> "error", provider |-> "none", error |-> error,
                status |-> IF stream THEN 200 ELSE getHttpStatus(error)]
  /\ written' = IF stream /\ ~dead
                THEN wr \o <<ErrorFrame(error), DoneFrame>>
                ELSE wr

\* Top of the loop body: attempts++ and the call of rateLimiter.acquire.
beginAttempt(sel, att, h) ==
  /\ attempts' = countAttempt(att)
  /\ selected' = sel
  /\ acquire(sel.provider)
  /\ pc' = "acquire"
  /\ hist' = [h EXCEPT !.tried = Append(@, sel.provider),
                       !.acquireCalls = @ + 1]

\* The catch block of the dispatch loop, then the loop test and either the
\* next attempt or the final throw.
catch(error) ==
  LET providerError == normalizeToProviderError(error, selected.provider)
      last == assignLastError(lastError, providerError)
      h1 == [hist EXCEPT !.errLog = Append(@, providerError)]
  IN /\ lastError' = last
     /\ IF catchRetries(providerError, attempts)
        THEN LET next == getNextProvider(failedProviders, req.model,
                                         selected.provider, now)
                 h2 == [h1 EXCEPT !.nextAt = Append(@, now)]
             IN /\ failedProviders' =
                     getNextProviderMap(failedProviders, req.model,
                                        selected.provider, now)
                /\ IF loopGuard(attempts, next)
                   THEN /\ beginAttempt(next, attempts, h2)
                        /\ UNCHANGED <<result, written>>
                   ELSE /\ selected' = next
                        /\ hist' = h2
                        /\ surface(last, req.stream, destroyed, written)
                        /\ UNCHANGED <<attempts, rlVars>>
        ELSE /\ hist' = h1
             /\ surface(last, req.stream, destroyed, written)
             /\ UNCHANGED <<failedProviders, selected, attempts, rlVars>>
     /\ UNCHANGED <<now, advances, reqCount, req, streamId, idCount,
                    chunkCount, destroyed>>

\* POST /v1/chat/completions with a valid body: resolve the model, select a
\* candidate and run the loop up to the first await.
StartRequest(model, stream) ==
  /\ pc \in {"idle", "done"}
  /\ UNCHANGED <<extVars, usage>>
  /\ reqCount < MaxRequests
  /\ reqCount' = reqCount + 1
  /\ req' = [model |-> model, stream |-> stream]
  /\ destroyed' = FALSE
  /\ lastError' = NoError
  /\ streamId' = 0
  /\ chunkCount' = 0
  /\ idCount' = 0
  /\ UNCHANGED <<now, advances>>
  /\ IF isUnknownModel(model)
     THEN /\ surface(PlainError("Unknown model"), stream, FALSE, <<>>)
          /\ selected' = NoCandidate
          /\ attempts' = 0
          /\ hist' = NewHist(FALSE)
          /\ UNCHANGED <<rlVars, failedProviders>>
     ELSE LET candidates == resolveModelAlias(model)
              sel == selectProvider(failedProviders, candidates, now)
              h == NewHist(\E i \in 1..Len(candidates) :
                     isProviderFailed(failedProviders, candidates[i].provider, now))
          IN /\ failedProviders' = selectProviderMap(failedProviders, candidates, now)
             /\ IF sel = NoCandidate
                THEN /\ surface(createProviderError("No available provider", model),
                                stream, FALSE, <<>>)
                     /\ selected' = sel
                     /\ attempts' = 0
                     /\ hist' = h
                     /\ UNCHANGED rlVars
                ELSE IF loopGuard(0, sel)
                THEN /\ beginAttempt(sel, 0, h)
                     /\ result' = NoResult
                     /\ written' = <<>>
                ELSE /\ surface(createProviderError("All providers failed", model),
                                stream, FALSE, <<>>)
                     /\ selected' = sel
                     /\ attempts' = 0
                     /\ hist' = h
                     /\ UNCHANGED rlVars

\* The awaited acquire promise settles: resolved at once, resolved by the
\* ticker, rejected with "queue full", or rejected by dispose.
AcquireSettled ==
  /\ pc = "acquire"
  /\ UNCHANGED <<extVars, usage>>
  /\ LET id == lastAcquire.id
         p == lastAcquire.provider
         outcome == lastAcquire.outcome
     IN IF outcome = "rejected"
        THEN catch(PlainError("queue full"))
        ELSE IF outcome = "queued" /\ id \in rejected
        THEN catch(PlainError("disposed"))
        ELSE /\ outcome \in {"admitted", "unlimited"}
                  \/ (outcome = "queued" /\ id \in SeqToSet(released[p]))
             /\ pc' = "token"
             /\ UNCHANGED <<now, advances, rlVars, failedProviders, reqCount,
                            req, selected, attempts, lastError, streamId,
                            idCount, chunkCount, destroyed,
                            written, result, hist>>

\* authManager.getValidToken settles.  With a token the handler looks the
\* adapter up and calls it; a stream gets its completion id first.
TokenResult(ok) ==
  /\ pc = "token"
  /\ UNCHANGED <<extVars, usage>>
  /\ IF ~ok
     THEN catch(PlainError("authenticate"))
     ELSE IF selected.provider \notin Adapters
     THEN catch(ProviderError(selected.provider, "service_unavailable", TRUE,
                              "not initialized"))
     ELSE /\ pc' = IF req.stream THEN "stream" ELSE "call"
          /\ streamId' = IF req.stream THEN idCount + 1 ELSE streamId
          /\ idCount' = IF req.stream THEN idCount + 1 ELSE idCount
          /\ chunkCount' = 0
          /\ hist' = [hist EXCEPT !.adapterCalls[selected.provider] = @ + 1]
          /\ UNCHANGED <<now, advances, rlVars, failedProviders, reqCount, req,
                         selected, attempts, lastError, destroyed, written,
                         result>>

\* provider.chatCompletion settles: 200 is a response, anything else the
\* normalized error of that status.
CallResult(status) ==
  /\ pc = "call"
  /\ UNCHANGED extVars
  /\ IF status = 200
     THEN /\ usage' = recordUsage(usage, selected.provider, selected.model)
          /\ pc' = "done"
          /\ result' = [kind |-> "response", provider |-> selected.provider,
                        error |-> NoError, status |-> 200]
          /\ UNCHANGED <<now, advances, rlVars, failedProviders, reqCount, req,
                         selected, attempts, lastError, streamId, idCount,
                         chunkCount, destroyed, written, hist>>
     ELSE /\ catch(normalizeError(selected.provider, status))
          /\ UNCHANGED usage

\* The transport's for-await receives a frame the handler yielded: it stops
\* when the response is destroyed, else writes the frame.
deliver(frame, nextPc) ==
  IF destroyed
  THEN /\ pc' = "done"
       /\ result' = [kind |-> "aborted", provider |-> selected.provider,
                     error |-> NoError, status |-> 200]
       /\ UNCHANGED written
  ELSE /\ pc' = nextPc
       /\ written' = Append(written, frame)
       /\ result' = IF nextPc = "done"
                    THEN [kind |-> "stream", provider |-> selected.provider,
                          error |-> NoError, status |-> 200]
                    ELSE result

\* The upstream stream yields a chunk: toOpenAIChunk with the attempt's
\* streamId, formatSSE, yield.
StreamChunk ==
  /\ pc = "stream"
  /\ UNCHANGED <<extVars, usage>>
  /\ chunkCount < MaxChunks
  /\ chunkCount' = chunkCount + 1
  /\ hist' = [hist EXCEPT !.yielded = @ + 1]
  /\ deliver(ChunkFrame(streamId), "stream")
  /\ UNCHANGED <<now, advances, rlVars, failedProviders, reqCount, req,
                 selected, attempts, lastError, streamId, idCount, destroyed>>

\* The upstream stream ends: yield formatSSEDone() and return.
StreamEnd ==
  /\ pc = "stream"
  /\ UNCHANGED <<extVars, usage>>
  /\ deliver(DoneFrame, "done")
  /\ UNCHANGED <<now, advances, rlVars, failedProviders, reqCount, req,
                 selected, attempts, lastError, streamId, idCount, chunkCount,
                 destroyed, hist>>

\* The upstream stream raises, before or after chunks.
StreamError(status) ==
  /\ pc = "stream"
  /\ UNCHANGED <<extVars, usage>>
  /\ catch(normalizeError(selected.provider, status))

\* The client closes the connection of a streaming request.
ClientDisconnect ==
  /\ pc \notin {"idle", "done"}
  /\ UNCHANGED <<extVars, usage>>
  /\ req.stream
  /\ ~destroyed
  /\ destroyed' = TRUE
  /\ UNCHANGED <<now, advances, rlVars, failedProviders, reqCount, pc, req,
                 selected, attempts, lastError, streamId, idCount, chunkCount,
                 written, result, hist>>

Init ==
  /\ now = 0
  /\ requestTimestamps = [p \in Providers |-> <<>>]
  /\ queues = [p \in Providers |-> <<>>]
  /\ timers = [p \in Providers |-> NoTimer]
  /\ intervals = [p \in Providers |-> 0]
  /\ nextId = 0
  /\ lastAcquire = [id |-> 0, provider |-> "openai", outcome |-> "none"]
  /\ admitted = [p \in Providers |-> <<>>]
  /\ released = [p \in Providers |-> <<>>]
  /\ rejected = {}
  /\ disposed = FALSE
  /\ advances = 0
  /\ failedProviders = [p \in Providers |-> NotFailed]
  /\ routerCall = NoCall
  /\ lastFailure = [p \in Providers |-> NotFailed]
  /\ reqCount = 0
  /\ pc = "idle"
  /\ req = [model |-> "gpt-4", stream |-> FALSE]
  /\ selected = NoCandidate
  /\ attempts = 0
  /\ lastError = NoError
  /\ streamId = 0
  /\ idCount = 0
  /\ chunkCount = 0
  /\ destroyed = FALSE
  /\ written = <<>>
  /\ result = NoResult
  /\ hist = NewHist(FALSE)
  /\ usage = NoUsage
  /\ tokens = [p \in Providers |-> NoToken]
  /\ authCalls = [c \in Calls |-> NoAuthCall]
  /\ posts = [p \in Providers |-> 0]
  /\ syncs = 0
  /\ lastSync = NoSync
  /\ file = {}
  /\ initialized = FALSE
  /\ storeOps = [o \in StoreOps |-> NoStoreOp]
  /\ expect = [p \in Providers |-> Unknown]
  /\ flow = NoFlow
  /\ gateways = [g \in Gateways |-> NoGateway]

NextRL ==
  \/ \E p \in Providers : Acquire(p)
  \/ \E p \in Providers : Ticker(p)
  \/ \E p \in Providers : GetStatus(p)
  \/ Dispose
  \/ \E d \in Deltas : AdvanceClock(d)

SpecRL == Init /\ [][NextRL]_vars

Next ==
  \/ \E m \in ModelNames, s \in BOOLEAN : StartRequest(m, s)
  \/ AcquireSettled
  \/ \E ok \in BOOLEAN : TokenResult(ok)
  \/ \E st \in Statuses \cup {200} : CallResult(st)
  \/ StreamChunk
  \/ StreamEnd
  \/ \E st \in Statuses : StreamError(st)
  \/ ClientDisconnect
  \/ \E p \in Providers : Ticker(p)
  \/ \E d \in Deltas : AdvanceClock(d)

Spec == Init /\ [][Next]_vars

\* The limiter under acquire calls that never stop arriving for the
\* providers whose queue can hold a waiter; the clock advances and a running
\* ticker fires.
NextRLLive ==
  \/ \E p \in {q \in DOMAIN configs : configs[q].maxQueueSize >= 1} :
       AcquireLive(p)
  \/ \E p \in {q \in DOMAIN configs : configs[q].maxQueueSize >= 1} :
       TickerLive(p)
  \/ DisposeLive
  \/ \E d \in Deltas : AdvanceLive(d)

SpecRLLive ==
  /\ Init
  /\ [][NextRLLive]_vars
  /\ WF_vars(\E d \in Deltas : AdvanceLive(d))
  /\ \A p \in {q \in DOMAIN configs : configs[q].maxQueueSize >= 1} :
       WF_vars(TickerLive(p))

\* The Router driven on its own.
NextRouter ==
  \/ \E p \in Providers : MarkFailed(p)
  \/ \E cs \in CandidateLists : SelectProvider(cs)
  \/ \E m \in DOMAIN modelAliases \cup DOMAIN directRoute, p \in Providers :
       GetNextProvider(m, p)
  \/ \E d \in Deltas : AdvanceClock(d)

SpecRouter == Init /\ [][NextRouter]_vars

\* The AuthManager and its token store alone.
NextAuth ==
  \/ \E p \in FileProviders, content \in WatchedContents : FileChanged(p, content)
  \/ \E c \in Calls, p \in Providers : GetValidToken(c, p)
  \/ \E c \in Calls : IsTokenExpired(c)
  \/ \E c \in Calls : GetToken(c)
  \/ \E c \in Calls, p \in Providers : RefreshToken(c, p)
  \/ \E c \in Calls : RefreshGetToken(c)
  \/ \E c \in Calls, a \in Answers : RefreshAnswer(c, a)
  \/ \E c \in Calls : RefreshReturn(c)
  \/ \E d \in Deltas : AdvanceClock(d)

SpecAuth == Init /\ [][NextAuth]_vars

\* syncTokenFromFile alone, on every file content.
NextSync ==
  \/ \E p \in FileProviders, content \in FileContents : SyncTokenFromFile(p, content)
  \/ \E d \in Deltas : AdvanceClock(d)

SpecSync == Init /\ [][NextSync]_vars

\* The FileTokenStore alone.
NextStore ==
  \/ \E o \in StoreOps, p \in FileProviders, t \in StoreTokens : StoreCall(o, "save", p, t)
  \/ \E o \in StoreOps, p \in FileProviders : StoreCall(o, "delete", p, NoToken)
  \/ \E o \in StoreOps, p \in FileProviders : StoreCall(o, "get", p, NoToken)
  \/ \E o \in StoreOps : ReadFile(o)
  \/ \E o \in StoreOps : Loaded(o)
  \/ \E o \in StoreOps : WriteFile(o)
  \/ NewStore

SpecStore == Init /\ [][NextStore]_vars

\* completeDeviceFlow driven on its own.
DeviceStep ==
  \/ \E a \in DeviceAnswers : DeviceAnswer(a)
  \/ DeviceWait
  \/ DeviceSave

NextDevice ==
  \/ \E p \in Providers : CompleteDeviceFlow(p)
  \/ DeviceStep

SpecDevice == Init /\ [][NextDevice]_vars

\* Every poll is answered or fails, every timer fires and every save returns.
SpecDeviceFair == SpecDevice /\ WF_vars(DeviceStep)

\* GatewayProxy instances driven on their own.
NextGateway ==
  \/ \E g \in Gateways, host \in Hosts : NewGateway(g, host)
  \/ \E g \in Gateways : Start(g)
  \/ \E g \in Gateways : Listening(g)
  \/ \E g \in Gateways : ListenError(g)
  \/ \E g \in Gateways : Stop(g)

SpecGateway == Init /\ [][NextGateway]_vars

\* ================================================================ claims

\* ---- C1.  Sliding-window rate guarantee: for every configured provider
\* and every instant T, at most requestsPerMinute admissions (immediate or
\* from the queue) have their admission time in (T - 60000, T].  The count
\* over that interval only grows at an admission time, so it is checked at
\* every admission time T.
C1_SlidingWindowRate ==
  \A p \in DOMAIN configs :
    \A i \in 1..Len(admitted[p]) :
      LET T == admitted[p][i]
      IN Cardinality({j \in 1..Len(admitted[p]) :
                        admitted[p][j] > T - WindowMs /\ admitted[p][j] <= T})
           <= configs[p].requestsPerMinute

\* More admissions than one window allows have happened on openai, one of
\* them from the queue.
C1_Witness ==
  /\ Len(admitted["openai"]) > configs["openai"].requestsPerMinute
  /\ Len(released["openai"]) >= 1

\* ---- C9.  FIFO release: per provider, the waiters resolved by the ticker
\* were resolved in the order they were enqueued (ids are given in call
\* order), and none of them overtook a waiter that is still queued.
C9_FifoRelease ==
  \A p \in Providers :
    LET s == released[p] \o queues[p]
    IN \A i, j \in 1..Len(s) : i < j => s[i] < s[j]

\* Two waiters that were queued together have both been released.
C9_Witness ==
  \E p \in Providers : Len(released[p]) >= 2

\* ---- C10.  Queue-full rejection: an acquire on a configured provider is
\* rejected exactly when the pruned window holds requestsPerMinute
\* timestamps and the queue holds maxQueueSize waiters; a rejected acquire
\* leaves the pruned window, the queues, the tickers and the admissions as
\* they were.
C10_QueueFullRejection ==
  [][ (nextId' # nextId /\ lastAcquire'.provider \in DOMAIN configs) =>
        LET p == lastAcquire'.provider
            pruned == SelectSeq(requestTimestamps[p],
                                LAMBDA t : now - t < WindowMs)
            isRejected == lastAcquire'.outcome = "rejected"
        IN /\ isRejected <=>
                (/\ Len(pruned) = configs[p].requestsPerMinute
                 /\ Len(queues[p]) = configs[p].maxQueueSize)
           /\ isRejected =>
                (/\ requestTimestamps' = [requestTimestamps EXCEPT ![p] = pruned]
                 /\ queues' = queues
                 /\ timers' = timers
                 /\ admitted' = admitted
                 /\ released' = released) ]_vars

\* An acquire was rejected while waiters were queued and a ticker ran.
C10_Witness ==
  /\ lastAcquire.outcome = "rejected"
  /\ Len(queues[lastAcquire.provider]) > 0
  /\ timers[lastAcquire.provider] # NoTimer

\* ---- C11.  Provider isolation: an acquire on provider A, whatever its
\* outcome, and a ticker firing or status read on A leave the window, the
\* queue and the ticker of every other provider B as they were; the outcome
\* of an acquire on a configured provider is determined by that provider's
\* own pruned window and queue.
C11_ProviderIsolation ==
  [][ LET touched == {q \in Providers :
                        \/ requestTimestamps'[q] # requestTimestamps[q]
                        \/ queues'[q] # queues[q]
                        \/ timers'[q] # timers[q]
                        \/ admitted'[q] # admitted[q]
                        \/ released'[q] # released[q]}
      IN /\ nextId' # nextId =>
              LET a == lastAcquire'.provider
              IN /\ touched \subseteq {a}
                 /\ a \in DOMAIN configs =>
                      lastAcquire'.outcome =
                        acquireBranch(SelectSeq(requestTimestamps[a],
                                                LAMBDA t : now - t < WindowMs),
                                      queues[a], configs[a])
                 /\ a \notin DOMAIN configs => lastAcquire'.outcome = "unlimited"
         /\ (nextId' = nextId /\ rejected' = rejected) =>
              Cardinality(touched) <= 1 ]_vars

\* openai is saturated (window and queue full, ticker running) and an
\* acquire on gemini has just been admitted.
C11_Witness ==
  /\ lastAcquire.provider = "gemini"
  /\ lastAcquire.outcome = "admitted"
  /\ Len(requestTimestamps["openai"]) = configs["openai"].requestsPerMinute
  /\ Len(queues["openai"]) = configs["openai"].maxQueueSize
  /\ timers["openai"] # NoTimer

\* ---- C12.  dispose() rejects every waiter queued at that moment, for every
\* provider, leaves every queue empty and no ticker running; a waiter that
\* dispose rejected is never admitted afterwards (it is neither released nor
\* still queued in any later state).
C12_DisposeRejectsWaiters ==
  /\ [][ ((~disposed /\ disposed') \/ rejected' # rejected) =>
           /\ \A p \in Providers :
                /\ SeqToSet(queues[p]) \subseteq rejected'
                /\ queues'[p] = <<>>
                /\ timers'[p] = NoTimer
           /\ admitted' = admitted
           /\ released' = released ]_vars
  /\ [](\A p \in Providers :
          /\ SeqToSet(released[p]) \cap rejected = {}
          /\ SeqToSet(queues[p]) \cap rejected = {})

\* dispose rejected two queued waiters: no queue holds a waiter and no
\* ticker runs.
C12_Witness ==
  /\ disposed
  /\ Cardinality(rejected) >= 2
  /\ \A p \in Providers : queues[p] = <<>> /\ timers[p] = NoTimer

\* ---- C13.  After dispose() has been called no acquire succeeds: no call
\* returns admitted (or unlimited), and no waiter is released from a queue.
C13_NoAcquireAfterDispose ==
  [][ disposed =>
        /\ admitted' = admitted
        /\ released' = released
        /\ nextId' # nextId =>
             lastAcquire'.outcome \notin {"admitted", "unlimited"} ]_vars

\* ---- C14.  Availability preference: for a non-empty candidate list,
\* selectProvider returns a candidate of the list; when some candidate's
\* provider is not currently failed, a non-failed one whose priority value
\* is the lowest among the non-failed; otherwise one whose priority value is
\* the lowest of all; it returns nothing only for the empty list.
C14_AvailabilityPreference ==
  \A cs \in CandidateLists :
    LET r == selectProvider(failedProviders, cs, now)
        isFailed(i) == isProviderFailed(failedProviders, cs[i].provider, now)
        available == {i \in 1..Len(cs) : ~isFailed(i)}
        pool == IF available # {} THEN available ELSE 1..Len(cs)
    IN IF cs = <<>> THEN r = NoCandidate
       ELSE /\ r # NoCandidate
            /\ \E i \in pool :
                 /\ r = cs[i]
                 /\ \A j \in pool : cs[i].priority <= cs[j].priority

\* selectProvider passed over a failed candidate of lower priority value and
\* returned an available one.
C14_Witness ==
  /\ routerCall.op = "select"
  /\ Len(routerCall.candidates) = 2
  /\ routerCall.result # NoCandidate
  /\ ~isProviderFailed(failedProviders, routerCall.result.provider, now)
  /\ \E i \in 1..2 :
       /\ routerCall.candidates[i].priority < routerCall.result.priority
       /\ isProviderFailed(failedProviders, routerCall.candidates[i].provider, now)

\* The aliases with at least two candidates.
MultiCandidateAliases == {m \in DOMAIN modelAliases : Len(resolveModelAlias(m)) >= 2}

\* C15 as the specification words it: for every alias with at least two
\* candidates and every provider p, getNextProvider(alias, p) returns a
\* candidate whose provider differs from p.
C15_NoRepeatOnFailure_Original ==
  \A m \in MultiCandidateAliases, p \in Providers :
    LET r == getNextProvider(failedProviders, m, p, now)
    IN r # NoCandidate /\ r.provider # p

\* ---- C15.  No-repeat-on-failure: for every alias with at least two
\* candidates and every provider p, getNextProvider(alias, p) returns a
\* candidate whose provider differs from p whenever some candidate of another
\* provider is not currently failed; when every other candidate is failed it
\* returns the candidate with the lowest priority value, which may be p.
C15_NoRepeatOnFailure ==
  \A m \in MultiCandidateAliases, p \in Providers :
    LET cs == resolveModelAlias(m)
        r == getNextProvider(failedProviders, m, p, now)
        others == {i \in 1..Len(cs) :
                     /\ cs[i].provider # p
                     /\ ~isProviderFailed(failedProviders, cs[i].provider, now)}
    IN /\ r # NoCandidate
       /\ others # {} => r.provider # p
       /\ others = {} => \E i \in 1..Len(cs) :
                           /\ r = cs[i]
                           /\ \A j \in 1..Len(cs) : cs[i].priority <= cs[j].priority

\* getNextProvider was called for the provider of the alias's lowest priority
\* value and returned a candidate of another provider.
C15_Witness ==
  /\ routerCall.op = "next"
  /\ Len(routerCall.candidates) >= 2
  /\ routerCall.provider = routerCall.candidates[1].provider
  /\ routerCall.result # NoCandidate
  /\ routerCall.result.provider # routerCall.provider

\* The provider's last failure report, if any, is at most failureTTL old.
WithinFailureTTL(p) ==
  lastFailure[p] # NotFailed /\ now - lastFailure[p] <= failureTTL

\* ---- C16.  Failure TTL: with t the time of the last failure reported for a
\* provider, isProviderFailed and selectProvider treat the provider as failed
\* exactly while now - t <= failureTTL; after that, with no reset, it is
\* available again and preferred over the candidates still failed; a new
\* report restarts the interval at its own time.
C16_FailureTTL ==
  /\ \A p \in Providers :
       isProviderFailed(failedProviders, p, now) <=> WithinFailureTTL(p)
  /\ \A cs \in CandidateLists :
       LET r == selectProvider(failedProviders, cs, now)
       IN (\E i \in 1..Len(cs) : ~WithinFailureTTL(cs[i].provider))
            => r # NoCandidate /\ ~WithinFailureTTL(r.provider)

\* A provider whose failure is older than failureTTL was selected ahead of a
\* candidate of lower priority value whose failure is still within it.
C16_Witness ==
  /\ routerCall.op = "select"
  /\ routerCall.result # NoCandidate
  /\ lastFailure[routerCall.result.provider] # NotFailed
  /\ now - lastFailure[routerCall.result.provider] > failureTTL
  /\ \E i \in 1..Len(routerCall.candidates) :
       /\ routerCall.candidates[i].priority < routerCall.result.priority
       /\ WithinFailureTTL(routerCall.candidates[i].provider)

\* The getValidToken call found the stored token expired when it checked,
\* and the token has a refresh token.
FoundExpired(c) ==
  /\ authCalls[c].op = "getValidToken"
  /\ authCalls[c].isExpired
  /\ authCalls[c].currentToken # NoToken
  /\ authCalls[c].currentToken.refreshToken # "none"
  /\ authCalls[c].checkedAt >= authCalls[c].currentToken.expiresAt

\* ---- C17.  Single-flight refresh: getValidToken calls for the same
\* provider that overlap while its stored token is expired and has a refresh
\* token send one refresh request between them: two of them never have a
\* refresh request in flight at the same time.
C17_SingleFlightRefresh ==
  \A c1, c2 \in Calls :
    (/\ c1 # c2
     /\ FoundExpired(c1)
     /\ FoundExpired(c2)
     /\ authCalls[c1].provider = authCalls[c2].provider)
    => ~(authCalls[c1].pc = "posted" /\ authCalls[c2].pc = "posted")

\* ---- C18.  Refresh failure clears state: when refreshToken(provider),
\* invoked with a TokenSet stored for the provider, fails, whatever the
\* reason, the store holds no TokenSet for the provider afterwards.
C18_RefreshFailureClearsToken ==
  [][ \A c \in Calls :
        (/\ authCalls[c].status # "error"
         /\ authCalls'[c].status = "error"
         /\ authCalls'[c].refreshed
         /\ authCalls'[c].currentToken # NoToken)
        => tokens'[authCalls'[c].provider] = NoToken ]_vars

\* ---- C19.  Expiry-triggered refresh: when getValidToken found the stored
\* token expired, with a refresh token, and the token endpoint answered with
\* a token, getValidToken returns a TokenSet that expires after the time of
\* the expiry check, that is the one the store holds when it returns, and
\* whose refresh token is the newly issued one or else the old one.
C19_ExpiryTriggeredRefresh ==
  [][ \A c \in Calls :
        (/\ FoundExpired(c)
         /\ \A other \in Calls : authCalls[other].op # "refreshToken"
         /\ authCalls[c].pc = "saveToken"
         /\ authCalls'[c].pc = "done")
        => LET r == authCalls'[c].token
           IN /\ authCalls'[c].status = "ok"
              /\ r.expiresAt > authCalls[c].checkedAt
              /\ tokens'[authCalls[c].provider] = r
              /\ r.refreshToken \in {"r-new", authCalls[c].currentToken.refreshToken} ]_vars

\* ---- C20.  getValidToken outcomes: with no token stored it fails with the
\* "authenticate" error; with a stored token that is expired and has no
\* refresh token it fails with the "re-authenticate" error; with an unexpired
\* stored token it returns that token and sends no refresh request.
C20_GetValidTokenOutcomes ==
  [][ \A c \in Calls :
        (authCalls[c].pc = "getToken" /\ authCalls'[c] # authCalls[c]) =>
          LET call == authCalls[c]
              token == tokens[call.provider]
              stable == token = call.currentToken
          IN /\ (stable /\ token = NoToken)
                  => /\ authCalls'[c].status = "error"
                     /\ authCalls'[c].error = "authenticate"
             /\ (stable /\ token # NoToken /\ now >= token.expiresAt
                        /\ call.isExpired /\ token.refreshToken = "none")
                  => /\ authCalls'[c].status = "error"
                     /\ authCalls'[c].error = "re-authenticate"
             /\ (stable /\ token # NoToken /\ ~call.isExpired)
                  => /\ authCalls'[c].status = "ok"
                     /\ authCalls'[c].token = token
                     /\ posts' = posts ]_vars

\* ---- C21.  File sync robustness: whatever the file holds (unreadable,
\* malformed JSON, empty, null, an object without access token, an expired
\* token), syncTokenFromFile does not raise to its caller, each of these
\* payloads is rejected, and a rejected payload leaves the token store as it
\* was.
C21_FileSyncRobustness ==
  \A p \in FileProviders, content \in FileContents :
    /\ ~syncRaises(content, now)
    /\ (\/ content.kind # "object"
        \/ ~content.access_token.present /\ ~content.accessToken.present
        \/ syncExpiresAt(content, now) <= now)
         => syncError(content, now) # "none"
    /\ syncError(content, now) # "none"
         => syncTokens(tokens, p, content, now) = tokens

\* A file was rejected, without raising, for a provider whose stored token
\* is still there.
C21_Witness ==
  /\ lastSync.error # "none"
  /\ ~lastSync.raised
  /\ ~lastSync.saved
  /\ tokens[lastSync.provider] # NoToken

\* ---- C22.  syncTokenFromFile never imports an expired token: a file whose
\* expiry fields (expires_at, expiresAt), at least one of them present, all
\* hold values not later than now, 0 included, is refused and leaves the store
\* unchanged; the default expiry now + 3600000 is given only to a file with
\* no expiry field at all.
C22_NoExpiredImport ==
  \A p \in FileProviders, content \in ObjectContents :
    LET supplied == {f \in {content.expires_at, content.expiresAt} : f.present}
    IN /\ (supplied # {} /\ \A f \in supplied : f.value <= now)
            => /\ syncError(content, now) # "none"
               /\ syncTokens(tokens, p, content, now) = tokens
       /\ (/\ syncError(content, now) = "none"
           /\ syncExpiresAt(content, now) = now + DefaultExpiryMs)
            => supplied = {}

\* ---- C23.  Token round-trip and persistence: after save(p, t) has
\* returned, get(p) returns t on the same store instance and on a fresh
\* instance on the same file; after delete(p) has returned, get(p) returns
\* nothing on both; this lasts until the next save or delete for p is called.
C23_TokenRoundTrip ==
  \A p \in Providers :
    expect[p] # Unknown => getToken(p) = expect[p] /\ getTokenFresh(p) = expect[p]

\* ---- C24.  Serialized token-file writes: once all the save and delete
\* calls made on a store, overlapping or not, have returned, the token file
\* holds what the in-memory map holds.
C24_SerializedWrites ==
  (/\ initialized
   /\ \A o \in StoreOps : ~inFlight(o) /\ storeOps[o].kind # "get")
  => \A p \in Providers : getTokenFresh(p) = tokens[p]

\* ---- helpers of the dispatch claims

Last(s) == s[Len(s)]

\* The candidates of the requested alias, as configured.
AliasCandidates == modelAliases[req.model]

\* The provider of the alias candidate that has exactly k candidates of a
\* lower priority value (the configured priorities are pairwise distinct).
ProviderOfRank(k) ==
  LET cs == AliasCandidates
      c == CHOOSE c \in {cs[i] : i \in 1..Len(cs)} :
             Cardinality({j \in 1..Len(cs) : cs[j].priority < c.priority}) = k
  IN c.provider

\* A request for an alias none of whose candidates was failed at the start.
C2_Precondition ==
  /\ reqCount > 0
  /\ req.model \in DOMAIN modelAliases
  /\ ~hist.failedAtStart

C2_Response ==
  (pc = "done" /\ result.kind = "response") =>
     /\ result.provider = Last(hist.tried)
     /\ Len(hist.errLog) = Len(hist.tried) - 1

\* ---- C2 as stated.  Fallback order: for an alias with pairwise-distinct
\* providers, none failed at the start, the i-th attempt goes to the
\* candidate with the i-th lowest priority value until every candidate has
\* been tried, each adapter being called at most once till then, and the
\* response is that of the first candidate that succeeds.
C2_FallbackOrder_Original ==
  C2_Precondition =>
    /\ \A i \in 1..Len(hist.tried) :
         i <= Len(AliasCandidates) => hist.tried[i] = ProviderOfRank(i - 1)
    /\ Len(hist.tried) <= Len(AliasCandidates) =>
         \A p \in Providers : hist.adapterCalls[p] <= 1
    /\ C2_Response

\* ---- C2 as amended.  The same, for every attempt that is selected while
\* each earlier failure recorded during the request is at most failureTTL
\* old: hist.nextAt[k] is the time of the getNextProvider call that selected
\* attempt k + 1.
C2_FallbackOrder ==
  C2_Precondition =>
    /\ \A i \in 1..Len(hist.tried) :
         (/\ i <= Len(AliasCandidates)
          /\ \A k \in 1..(i - 1) :
               hist.nextAt[i - 1] - hist.nextAt[k] <= failureTTL)
         => /\ hist.tried[i] = ProviderOfRank(i - 1)
            /\ \A k \in 1..(i - 1) : hist.tried[k] # hist.tried[i]
    /\ (/\ Len(hist.tried) <= Len(AliasCandidates)
        /\ \A k \in 1..Len(hist.nextAt) :
             Last(hist.nextAt) - hist.nextAt[k] <= failureTTL)
       => \A p \in Providers : hist.adapterCalls[p] <= 1
    /\ C2_Response

\* Scenario S3: openai (priority 1) failed retryably, gemini (priority 2)
\* answered, each adapter called once.
C2_Witness ==
  /\ C2_Precondition
  /\ pc = "done"
  /\ result.kind = "response"
  /\ result.provider = "gemini"
  /\ hist.tried = <<"openai", "gemini">>
  /\ hist.adapterCalls["openai"] = 1
  /\ hist.adapterCalls["gemini"] = 1

\* ---- C3.  Bounded retry: a request, streaming or not, makes at most
\* maxRetries attempts, hence at most maxRetries acquire calls and at most
\* maxRetries adapter calls; once maxRetries attempts have failed it has
\* ended with an error, and a request that has ended carries a response, a
\* finished or aborted stream, or an error.
C3_BoundedRetry ==
  /\ attempts <= maxRetries
  /\ Len(hist.tried) <= maxRetries
  /\ hist.acquireCalls <= maxRetries
  /\ \A P \in SUBSET Providers :
       (\A p \in P : hist.adapterCalls[p] >= 1) =>
         Cardinality(P) <= maxRetries
  /\ \A p \in Providers : hist.adapterCalls[p] <= maxRetries
  /\ hist.adapterCalls["openai"] + hist.adapterCalls["gemini"]
       + hist.adapterCalls["anthropic"] <= maxRetries
  /\ Len(hist.errLog) >= maxRetries => (pc = "done" /\ result.kind = "error")
  /\ pc = "done" => result.kind \in {"response", "stream", "aborted", "error"}

\* A request used all maxRetries attempts and ended with an error.
C3_Witness ==
  /\ pc = "done"
  /\ result.kind = "error"
  /\ hist.acquireCalls = maxRetries
  /\ Len(hist.errLog) = maxRetries

\* ---- C4.  No fallback on non-retryable errors: a step in which an attempt
\* fails with a non-retryable error ends the request with that error, makes
\* no further attempt (no acquire call), does not call getNextProvider and
\* leaves the failure map unchanged; upstream invalid_request and auth
\* errors, token-retrieval failures and queue-full rejections are such
\* errors.
C4_NoFallbackOnNonRetryable ==
  [][ (Len(hist'.errLog) = Len(hist.errLog) + 1) =>
        LET e == Last(hist'.errLog)
        IN /\ e.message \in {"authenticate", "queue full"} => ~e.retryable
           /\ e.type \in {"invalid_request", "auth"} => ~e.retryable
           /\ ~e.retryable =>
                /\ pc' = "done"
                /\ result'.kind = "error"
                /\ result'.error = e
                /\ hist'.tried = hist.tried
                /\ hist'.nextAt = hist.nextAt
                /\ nextId' = nextId
                /\ failedProviders' = failedProviders ]_vars

\* A queue-full rejection ended a request that had attempts left.
C4_Witness ==
  /\ pc = "done"
  /\ result.kind = "error"
  /\ hist.errLog # <<>>
  /\ Last(hist.errLog).message = "queue full"
  /\ attempts < maxRetries

\* ---- C5.  Exhaustion: when a request ends in an error after one or more
\* failed attempts, the error surfaced is the normalized error of the last
\* attempt; when every attempt raised service_unavailable the surfaced kind
\* is service_unavailable, HTTP 503 for a non-streaming request.
C5_Exhaustion ==
  (pc = "done" /\ result.kind = "error" /\ hist.errLog # <<>>) =>
     /\ result.error = Last(hist.errLog)
     /\ (\A i \in 1..Len(hist.errLog) :
           hist.errLog[i].type = "service_unavailable")
        => /\ result.error.type = "service_unavailable"
           /\ ~req.stream => result.status = 503

\* Scenario S4: every attempt of a non-streaming request raised
\* service_unavailable, on more than one provider.
C5_Witness ==
  /\ pc = "done"
  /\ result.kind = "error"
  /\ ~req.stream
  /\ Len(hist.errLog) = maxRetries
  /\ \A i \in 1..Len(hist.errLog) : hist.errLog[i].type = "service_unavailable"
  /\ hist.errLog[1].provider # Last(hist.errLog).provider
  /\ result.status = 503

\* ---- C6.  Mid-stream failures never trigger fallback: when the stream
\* adapter raises after a chunk of the response has been yielded, there is
\* no getNextProvider call and no further attempt; the request ends with
\* the error surfaced.
C6_NoMidStreamFallback ==
  [][ (/\ pc = "stream"
       /\ hist.yielded >= 1
       /\ Len(hist'.errLog) = Len(hist.errLog) + 1)
      => /\ hist'.nextAt = hist.nextAt
         /\ hist'.tried = hist.tried
         /\ pc' = "done"
         /\ result'.kind = "error" ]_vars

\* ---- C7.  Stable stream id: all chunk frames written for one streaming
\* request carry the same id.
C7_StableStreamId ==
  \A i, j \in 1..Len(written) :
    (written[i].type = "chunk" /\ written[j].type = "chunk")
      => written[i].id = written[j].id

\* ---- C8.  Stream termination frame: no frame is ever written after
\* [DONE] (so there is at most one), and a streaming response that ended
\* without the client aborting has [DONE] as its last frame, preceded by
\* exactly one error frame when dispatch failed and by none otherwise.
C8_StreamTermination ==
  LET n == Len(written)
      errorFrames == {i \in 1..n : written[i].type = "error"}
  IN /\ \A i \in 1..n : written[i].type = "done" => i = n
     /\ (reqCount > 0 /\ req.stream /\ pc = "done" /\ ~destroyed) =>
          /\ n >= 1
          /\ written[n].type = "done"
          /\ result.kind = "error" => (n >= 2 /\ errorFrames = {n - 1})
          /\ result.kind # "error" => errorFrames = {}

\* A stream failed after chunks were written and was closed by an error
\* frame and [DONE].
C8_Witness ==
  /\ req.stream
  /\ pc = "done"
  /\ ~destroyed
  /\ result.kind = "error"
  /\ Len(written) >= 3
  /\ written[1].type = "chunk"

\* ---- C25.  A rate-limiter "queue full" rejection that ends a request is
\* surfaced with kind rate_limit: the error raised by the dispatcher has type
\* rate_limit, the wire error type is rate_limit_error, and a non-streaming
\* request is answered with HTTP 429.
C25_QueueFullIsRateLimit ==
  (/\ pc = "done"
   /\ result.kind = "error"
   /\ hist.errLog # <<>>
   /\ Last(hist.errLog).message = "queue full")
  => /\ result.error.type = "rate_limit"
     /\ formatError(result.error) = "rate_limit_error"
     /\ ~req.stream => result.status = 429

\* The status the failure kinds are documented to map to.
StatusOfKind(error) ==
  IF error.type = "auth" THEN 401
  ELSE IF error.type = "rate_limit" THEN 429
  ELSE IF error.type = "invalid_request" THEN 400
  ELSE IF error.message = "Unknown model" THEN 400
  ELSE IF error.type = "service_unavailable" THEN 503
  ELSE 500

\* ---- C26.  HTTP status mapping: a request, streaming or not, that failed
\* before any chunk was written is answered with the status of its failure
\* kind: auth 401, rate_limit 429, invalid_request or an unknown model 400,
\* service_unavailable 503, unknown 500.
C26_HttpStatusMapping ==
  (/\ pc = "done"
   /\ reqCount > 0
   /\ result.kind = "error"
   /\ \A i \in 1..Len(written) : written[i].type # "chunk")
  => result.status = StatusOfKind(result.error)

\* ---- C27.  Upstream status classification: a step in which an adapter
\* call fails with an HTTP status from 500 to 599 records an error of type
\* service_unavailable that is retryable, and a non-streaming request with
\* attempts left goes on to another attempt; a 429 is recorded as rate_limit
\* and retryable; 401, 403 and 400 are recorded as non-retryable.
C27_UpstreamClassification ==
  [][ \A st \in Statuses :
        (CallResult(st) \/ StreamError(st)) =>
          LET e == Last(hist'.errLog)
          IN /\ (st >= 500 /\ st <= 599) =>
                  /\ e.type = "service_unavailable"
                  /\ e.retryable
                  /\ (pc = "call" /\ attempts < maxRetries) => pc' = "acquire"
             /\ st = 429 => (e.type = "rate_limit" /\ e.retryable)
             /\ st \in {401, 403, 400} => ~e.retryable ]_vars

\* ---- C28.  Client disconnect during streaming: in a step taken while the
\* response of a streaming request is destroyed and the upstream stream is
\* open, no chunk is taken from the upstream stream, nothing is written to
\* the response and no adapter call is made.
C28_DisconnectStopsStream ==
  [][ (req.stream /\ destroyed /\ pc = "stream") =>
        /\ hist'.yielded = hist.yielded
        /\ written' = written
        /\ hist'.adapterCalls = hist.adapterCalls ]_vars

C30_SecurityGate ==
  \A g \in Gateways :
    (/\ gateways[g].host # "none"
     /\ gateways[g].host \notin {"localhost", "127.0.0.1", "::1"})
    => /\ gateways[g].listens = 0
       /\ gateways[g].server = "none"
       /\ gateways[g].starts > 0 => gateways[g].started = "security"

\* start() was called on a gateway configured with host 0.0.0.0 and failed.
C30_Witness ==
  \E g \in Gateways :
    /\ gateways[g].host = "0.0.0.0"
    /\ gateways[g].starts > 0
    /\ gateways[g].started = "security"

\* ---- C31.  Window bound: for each configured provider the window holds
\* at most requestsPerMinute admission timestamps.
C31_WindowBound ==
  \A p \in DOMAIN configs :
    Len(requestTimestamps[p]) <= configs[p].requestsPerMinute

\* The window of openai is full and the ticker has released a waiter into it.
C31_Witness ==
  /\ Len(requestTimestamps["openai"]) = configs["openai"].requestsPerMinute
  /\ released["openai"] # <<>>
  /\ Last(requestTimestamps["openai"]) = Last(admitted["openai"])

\* ---- C32.  Queue bound: for each configured provider the queue holds at
\* most maxQueueSize waiters, and getStatus reports a queueLength of at most
\* maxQueueSize.
C32_QueueBound ==
  \A p \in DOMAIN configs :
    /\ Len(queues[p]) <= configs[p].maxQueueSize
    /\ getStatus(p).queueLength <= configs[p].maxQueueSize

\* openai's queue is full and a further acquire was turned away.
C32_Witness ==
  /\ Len(queues["openai"]) = configs["openai"].maxQueueSize
  /\ getStatus("openai").queueLength = configs["openai"].maxQueueSize
  /\ lastAcquire.provider = "openai"
  /\ lastAcquire.outcome = "rejected"

\* The timestamps of every window are in non-decreasing order.
WindowsSorted ==
  \A p \in DOMAIN configs :
    \A i, j \in 1..Len(requestTimestamps[p]) :
      i <= j => requestTimestamps[p][i] <= requestTimestamps[p][j]

\* ---- C33 as stated.  Window freshness: in every reachable state every
\* timestamp t of a window satisfies now - t <= 60000, and the timestamps
\* of a window are in non-decreasing order.
C33_WindowFreshness_Original ==
  /\ \A p \in DOMAIN configs :
       \A i \in 1..Len(requestTimestamps[p]) :
         now - requestTimestamps[p][i] <= 60000
  /\ WindowsSorted

\* ---- C33 as amended.  The timestamps of a window are always in
\* non-decreasing order, and at the end of every acquire, getStatus and
\* ticker step on a provider every timestamp t of its window satisfies
\* now - t < 60000.
C33_WindowFreshness ==
  /\ []WindowsSorted
  /\ [][ \A p \in DOMAIN configs :
           (Acquire(p) \/ GetStatus(p) \/ Ticker(p)) =>
             \A i \in 1..Len(requestTimestamps'[p]) :
               now' - requestTimestamps'[p][i] < 60000 ]_vars

\* A window from which an expired timestamp has been pruned and which holds
\* a newer one.
C33_Witness ==
  /\ requestTimestamps["openai"] # <<>>
  /\ Len(admitted["openai"]) > Len(requestTimestamps["openai"])
  /\ now - admitted["openai"][1] >= 60000

\* ---- C34.  Every retryable failure of a dispatch attempt is recorded in
\* the Router: at the end of a step in which an attempt on provider p fails
\* with a retryable error, p is in the failure map and isProviderFailed(p)
\* holds, whether or not the attempt was the last one maxRetries allows.
C34_RetryableFailureRecorded ==
  [][ (/\ Len(hist'.errLog) = Len(hist.errLog) + 1
       /\ Last(hist'.errLog).retryable)
      => /\ failedProviders'[selected.provider] # NotFailed
         /\ isProviderFailed(failedProviders', selected.provider, now') ]_vars

\* ---- C35.  Ticker lifecycle: for each provider the release ticker is
\* running exactly when its wait queue is non-empty, and at most one
\* setInterval handle exists per provider (none while no ticker is running).
C35_TickerLifecycle ==
  \A p \in Providers :
    /\ (timers[p] # NoTimer) <=> (queues[p] # <<>>)
    /\ intervals[p] <= 1
    /\ intervals[p] = (IF timers[p] # NoTimer THEN 1 ELSE 0)

\* The ticker of openai, started for a waiter, stopped when it released the
\* last waiter of the queue.
C35_Witness ==
  /\ released["openai"] # <<>>
  /\ queues["openai"] = <<>>
  /\ timers["openai"] = NoTimer
  /\ intervals["openai"] = 0

\* ---- C36.  Strict FIFO admission per provider: an acquire call that
\* arrives while waiters are queued for its provider is not admitted ahead
\* of them, so a call is admitted on arrival only when the queue of its
\* provider is empty.
C36_StrictFifoAdmission ==
  [][ \A p \in DOMAIN configs :
        (/\ nextId' = nextId + 1
         /\ lastAcquire'.provider = p
         /\ lastAcquire'.outcome = "admitted")
        => queues[p] = <<>> ]_vars

\* ---- C37.  No waiter is stranded: for a configured provider with
\* requestsPerMinute >= 1, while the clock advances and the running ticker
\* keeps firing, a waiter that is in the queue eventually leaves it
\* (released by the ticker or rejected by dispose), whatever acquire calls
\* keep arriving.
C37_NoWaiterStranded ==
  \A p \in {q \in DOMAIN configs : configs[q].requestsPerMinute >= 1} :
    \A id \in 1..configs[p].maxQueueSize :
      (id \in SeqToSet(queues[p])) ~> (id \notin SeqToSet(queues[p]))

\* ---- C38.  Lazy initialization is safe under overlap: on one store
\* instance the file is loaded into the map at most once (a load is applied
\* only while the store is not yet initialized); a load changes no entry of
\* the map of an initialized store; and once a save(p, t) or delete(p) that
\* no other save or delete of p overlapped has returned, the entry of p in
\* the map of that store stays what get(p) returned then, until the next
\* save or delete of p is called.
C38_LazyInitialization ==
  [][ /\ \A o \in StoreOps :
           (storeOps[o].pc = "loaded" /\ storeOps'[o].pc # "loaded") =>
             /\ ~initialized
             /\ initialized =>
                  \A p \in Providers :
                    (storeOps[o].kind = "get" \/ p # storeOps[o].provider)
                      => tokens'[p] = tokens[p]
      /\ (initialized /\ initialized') =>
           \A p \in Providers :
             (expect[p] # Unknown /\ expect'[p] = expect[p])
               => tokens'[p] = tokens[p] ]_vars

\* ---- C39.  A successful refresh is never undone by an overlapping one: a
\* refresh whose token request fails never deletes a TokenSet that another
\* refresh for the same provider saved while the failing one was under way
\* (the store holds a TokenSet other than the one the failing refresh read
\* when it started, and that TokenSet is the one another refresh saved); so
\* the store still holds the saved TokenSet once both have completed.
C39_RefreshNotUndone ==
  [][ \A c \in Calls :
        (/\ authCalls[c].pc = "posted"
         /\ authCalls'[c].pc = "deleteToken"
         /\ tokens[authCalls[c].provider] # authCalls[c].currentToken
         /\ \E c2 \in Calls \ {c} :
              /\ authCalls[c2].refreshed
              /\ authCalls[c2].provider = authCalls[c].provider
              /\ authCalls[c2].pc \in {"saveToken", "done"}
              /\ authCalls[c2].token # NoToken
              /\ authCalls[c2].token = tokens[authCalls[c].provider])
        => tokens'[authCalls[c].provider] = tokens[authCalls[c].provider] ]_vars

\* Sum of the requestCount of the entries of a usage map.
RECURSIVE SumRequestCount(_, _)
SumRequestCount(map, keys) ==
  IF keys = {} THEN 0
  ELSE LET k == CHOOSE x \in keys : TRUE
       IN map[k] + SumRequestCount(map, keys \ {k})

\* The step ends a non-streaming request with a response.
ServesResponse ==
  /\ pc # "done"
  /\ pc' = "done"
  /\ ~req.stream
  /\ result'.kind = "response"

====
